---- MODULE Spec2Model ----
(***************************************************************************)
(* Verification model of the job-scraping pipeline of razeen845/Scrp:      *)
(*   - JobMatchingTool.find_all_job_matches   (SpecMatch)                  *)
(*   - SearchAndPaginationTool.handle_pagination (SpecPag)                 *)
(*   - UniversalJobScraper._execute_extraction_strategy (SpecExec)         *)
(*   - LeadAgent.process_job_request + JobScraperSystem.scrape_job (Spec)  *)
(* Strings are sequences of one-character strings. Scores are kept in      *)
(* tenths (x10) so that the factors 0.8 and 0.3 stay exact integers.       *)
(***************************************************************************)
EXTENDS Integers, Sequences, FiniteSets, TLC

VARIABLES
    \* ---- find_all_job_matches ----
    m_pc,          \* "idle" | "call" | "done"
    m_links,       \* job_links argument
    m_params,      \* job_params argument: [job_title, location]
    m_result,      \* returned dict
    \* ---- handle_pagination ----
    p_pc,          \* "idle" | "loop" | "click" | "sleep" | "done"
    all_results,   \* accumulated items
    page_count,    \* loop counter
    p_calls,       \* number of calls of extractor_func
    p_clicks,      \* number of successful clicks on a next control
    p_sleeps,      \* number of settle delays executed
    p_readded,     \* history: an item was appended whose url an earlier page had added
    p_seen,        \* history: the urls the extractor has returned
    p_errors,      \* history: the extraction raised on some page
    p_dropped,     \* history: the deduplication left some item out
    p_result,      \* returned dict
    \* ---- _execute_extraction_strategy ----
    e_pc,          \* position inside the executor
    e_strategy,    \* the strategy dict returned by the reasoning service
    e_plan,        \* execution_plan of the strategy
    e_scrolls,     \* scroll loop: iterations started
    e_ops,         \* history: page operations performed, in order
    e_direct,      \* history: calls of _execute_direct_extraction
    e_hops,        \* history: fallback hops taken in the except branch
    e_failed,      \* history: the selected strategy failed (returned failure or raised)
    e_result,      \* returned dict
    \* ---- process_job_request / scrape_job ----
    o_pc,          \* pipeline position
    job_params,    \* the request
    company_url,
    careers_url,
    pagination_info, \* has_pagination of detect_pagination_info
    scrape_result, \* the local variable scrape_result
    job_links,     \* the local variable job_links
    o_step5,       \* history: what the step-5 run of the Strategy Executor returned
    o_extracts,    \* history: runs of the extraction step (direct or pagination-driven)
    o_fallbacks,   \* history: calls of _fallback_scraping
    o_match_in,    \* history: the list handed to find_all_job_matches
    all_matches,
    o_exc,         \* the exception raised inside the try block, if any
    o_escaped,     \* an exception left process_job_request
    sj_exc,        \* the exception caught by the except branch of scrape_job
    result,        \* the dict returned by process_job_request
    output_file,   \* the documents written to output.json, in order
    scraped_jobs,  \* detail scraping: records collected
    visited_urls,  \* detail scraping: urls visited
    d_i,           \* detail scraping: loop index
    d_navs,        \* history: urls navigated to during detail scraping
    files_written, \* the names of the files the run has written
    o_search,      \* history: the company search and its best confidence
    search_result, \* dict returned by detect_and_use_search
    \* ---- main and the cleanup chain ----
    main_pc,       \* position inside main()
    open_resources, \* the resources acquired and not yet released
    exit_code,     \* the code main() exits with
    \* ---- detect_pagination_info ----
    dp_pc,         \* "idle" | "call" | "done"
    dp_text,       \* the page text, as a sequence of words
    dp_classes,    \* the class names of the page's elements
    dp_result,     \* returned dict
    \* ---- _llm_extract_jobs, after the reply has been parsed ----
    l_pc,          \* "idle" | "loop" | "done"
    l_jobs,        \* the records of the reasoning service's reply
    current_url,   \* web_navigator.current_url
    cleaned_jobs,  \* the list being returned
    \* ---- detect_and_handle_iframes ----
    f_pc,          \* "idle" | "detect" | "loop" | "done"
    page_iframes,  \* the iframe elements of the page, in document order
    iframes,       \* iframe_info["iframes"]: scored and sorted
    f_idx,         \* idx of the for loop (0-based)
    job_results,   \* listings accumulated over the frames
    f_log,         \* history: what was done for each frame, in processing order
    f_url,         \* web_navigator.current_url
    f_result       \* returned dict

mvars == <<m_pc, m_links, m_params, m_result>>
pvars == <<p_pc, all_results, page_count, p_calls, p_clicks, p_sleeps, p_readded,
           p_seen, p_errors, p_dropped, p_result>>
evars == <<e_pc, e_strategy, e_plan, e_scrolls, e_ops, e_direct,
           e_hops, e_failed, e_result>>
ovars == <<o_pc, job_params, company_url, careers_url, pagination_info,
           scrape_result, job_links, o_step5, o_extracts,
           o_fallbacks, o_match_in, all_matches, o_exc, o_escaped, sj_exc, result,
           output_file, scraped_jobs, visited_urls, d_i, d_navs,
           files_written, o_search, search_result, main_pc, open_resources, exit_code>>
cvars == <<main_pc, open_resources, exit_code>>
dvars == <<dp_pc, dp_text, dp_classes, dp_result>>
lvars == <<l_pc, l_jobs, current_url, cleaned_jobs>>
ivars == <<f_pc, page_iframes, iframes, f_idx, job_results, f_log, f_url, f_result>>
xvars == <<dvars, lvars, ivars>>
vars == <<mvars, pvars, evars, ovars, xvars>>

None == "None"

(***************************************************************************)
(* Generic helpers                                                         *)
(***************************************************************************)
Max(a, b) == IF a >= b THEN a ELSE b
Min(a, b) == IF a <= b THEN a ELSE b

Range(s) == {s[i] : i \in 1..Len(s)}

\* all sequences over S of length 0..n
SeqsUpTo(S, n) == UNION {[1..k -> S] : k \in 0..n}

\* Python slice s[lo:hi] with 0-based lo, exclusive hi
Slice(s, lo, hi) == IF hi <= lo THEN <<>> ELSE SubSeq(s, lo + 1, Min(hi, Len(s)))

(***************************************************************************)
(* Characters and strings                                                  *)
(***************************************************************************)
\* the characters of the model, in code-point order
Alphabet == <<" ", "-", "/", "D", "N", "O", "Y", "a", "d", "e", "n", "o", "p", "q", "s", "v", "y">>

Ord(c) == CHOOSE i \in 1..Len(Alphabet) : Alphabet[i] = c

\* str.lower() on one character
LowerChar(c) ==
    CASE c = "D" -> "d"
      [] c = "N" -> "n"
      [] c = "O" -> "o"
      [] c = "Y" -> "y"
      [] OTHER -> c

\* str.lower()
Lower(s) == [i \in 1..Len(s) |-> LowerChar(s[i])]

IsAlnum(c) == c \notin {" ", "-", "/"}

\* lexicographic s < t
RECURSIVE StrLess(_, _)
StrLess(s, t) ==
    IF t = <<>> THEN FALSE
    ELSE IF s = <<>> THEN TRUE
    ELSE IF s[1] # t[1] THEN Ord(s[1]) < Ord(t[1])
    ELSE StrLess(Tail(s), Tail(t))

\* `sub in s` on strings
Contains(s, sub) ==
    \E i \in 0..(Len(s) - Len(sub)) : Slice(s, i, i + Len(sub)) = sub

\* s.startswith(prefix)
StartsWith(s, prefix) == Len(s) >= Len(prefix) /\ Slice(s, 0, Len(prefix)) = prefix

\* str.strip() for the space character
RECURSIVE LStrip(_)
LStrip(s) == IF s # <<>> /\ s[1] = " " THEN LStrip(Tail(s)) ELSE s
RECURSIVE RStrip(_)
RStrip(s) == IF s # <<>> /\ s[Len(s)] = " " THEN RStrip(SubSeq(s, 1, Len(s) - 1)) ELSE s
Strip(s) == RStrip(LStrip(s))

\* str.split(): the maximal runs of non-space characters
RECURSIVE SplitAcc(_, _, _)
SplitAcc(s, cur, acc) ==
    IF s = <<>> THEN (IF cur = <<>> THEN acc ELSE Append(acc, cur))
    ELSE IF s[1] = " "
         THEN SplitAcc(Tail(s), <<>>, IF cur = <<>> THEN acc ELSE Append(acc, cur))
         ELSE SplitAcc(Tail(s), Append(cur, s[1]), acc)
Split(s) == SplitAcc(s, <<>>, <<>>)

\* sorted(tokens): insertion into a sorted list
RECURSIVE InsertTok(_, _)
InsertTok(tok, sorted) ==
    IF sorted = <<>> THEN <<tok>>
    ELSE IF StrLess(tok, sorted[1]) THEN <<tok>> \o sorted
    ELSE <<sorted[1]>> \o InsertTok(tok, Tail(sorted))
RECURSIVE SortToks(_)
SortToks(toks) ==
    IF toks = <<>> THEN <<>> ELSE InsertTok(toks[1], SortToks(Tail(toks)))

\* " ".join(tokens)
RECURSIVE JoinToks(_)
JoinToks(toks) ==
    IF toks = <<>> THEN <<>>
    ELSE IF Len(toks) = 1 THEN toks[1]
    ELSE toks[1] \o <<" ">> \o JoinToks(Tail(toks))

(***************************************************************************)
(* fuzzywuzzy.fuzz as called by the matcher (pure-Python SequenceMatcher)   *)
(***************************************************************************)
\* SequenceMatcher.find_longest_match(alo, ahi, blo, bhi): the longest common
\* block, of those the one starting earliest in a, of those earliest in b
CommonBlocks(a, b, alo, ahi, blo, bhi) ==
    {t \in (alo..(ahi - 1)) \X (blo..(bhi - 1)) \X (1..Max(ahi - alo, 0)) :
        /\ t[1] + t[3] <= ahi
        /\ t[2] + t[3] <= bhi
        /\ Slice(a, t[1], t[1] + t[3]) = Slice(b, t[2], t[2] + t[3])}

FindLongestMatch(a, b, alo, ahi, blo, bhi) ==
    LET C == CommonBlocks(a, b, alo, ahi, blo, bhi) IN
    IF C = {} THEN <<alo, blo, 0>>
    ELSE CHOOSE t \in C :
           \A u \in C :
              \/ t[3] > u[3]
              \/ (t[3] = u[3] /\ t[1] < u[1])
              \/ (t[3] = u[3] /\ t[1] = u[1] /\ t[2] <= u[2])

\* SequenceMatcher.get_matching_blocks() without the closing dummy block
RECURSIVE MatchingBlocks(_, _, _, _, _, _)
MatchingBlocks(a, b, alo, ahi, blo, bhi) ==
    LET t == FindLongestMatch(a, b, alo, ahi, blo, bhi) IN
    IF t[3] = 0 THEN {}
    ELSE MatchingBlocks(a, b, alo, t[1], blo, t[2])
           \cup {t}
           \cup MatchingBlocks(a, b, t[1] + t[3], ahi, t[2] + t[3], bhi)

RECURSIVE SumSizes(_)
SumSizes(B) ==
    IF B = {} THEN 0 ELSE LET t == CHOOSE x \in B : TRUE IN t[3] + SumSizes(B \ {t})

\* number of matched characters M of SequenceMatcher.ratio() = 2.0*M/T
Matches(a, b) == SumSizes(MatchingBlocks(a, b, 0, Len(a), 0, Len(b)))

\* utils.intr(100 * num/den): int(round(x)), round-half-even
Intr100(num, den) ==
    LET q == (100 * num) \div den
        r == (100 * num) % den
    IN IF 2 * r < den THEN q
       ELSE IF 2 * r > den THEN q + 1
       ELSE IF q % 2 = 0 THEN q ELSE q + 1

\* fuzz.ratio with its decorators check_for_equivalence, check_empty_string
Ratio(s1, s2) ==
    IF s1 = s2 THEN 100
    ELSE IF Len(s1) = 0 \/ Len(s2) = 0 THEN 0
    ELSE Intr100(2 * Matches(s1, s2), Len(s1) + Len(s2))

\* fuzz.partial_ratio: best ratio of the shorter string against the windows of
\* the longer one that the matching blocks point at; no case folding
PartialRatio(s1, s2) ==
    IF s1 = s2 THEN 100
    ELSE IF Len(s1) = 0 \/ Len(s2) = 0 THEN 0
    ELSE
      LET shorter == IF Len(s1) <= Len(s2) THEN s1 ELSE s2
          longer  == IF Len(s1) <= Len(s2) THEN s2 ELSE s1
          blocks  == MatchingBlocks(shorter, longer, 0, Len(shorter), 0, Len(longer))
                       \cup {<<Len(shorter), Len(longer), 0>>}
          starts  == {Max(t[2] - t[1], 0) : t \in blocks}
          window(st) == Slice(longer, st, st + Len(shorter))
          \* ratio of one window as a fraction <<2M, T>>
          frac(st) == <<2 * Matches(shorter, window(st)), Len(shorter) + Len(window(st))>>
          F == {frac(st) : st \in starts}
          best == CHOOSE f \in F : \A g \in F : f[1] * g[2] >= g[1] * f[2]
      IN IF \E f \in F : 1000 * f[1] > 995 * f[2] THEN 100
         ELSE Intr100(best[1], best[2])

\* utils.full_process: non-alphanumerics to spaces, lower case, strip
FullProcess(s) ==
    Strip([i \in 1..Len(s) |-> IF IsAlnum(s[i]) THEN LowerChar(s[i]) ELSE " "])

\* fuzz._process_and_sort
ProcessAndSort(s) == Strip(JoinToks(SortToks(Split(FullProcess(s)))))

\* a faulty variant: token_sort_ratio without full_process (no case folding)
TokenSortRatioRaw(s1, s2) == Ratio(JoinToks(SortToks(Split(s1))), JoinToks(SortToks(Split(s2))))

\* fuzz.token_sort_ratio
TokenSortRatio(s1, s2) == Ratio(ProcessAndSort(s1), ProcessAndSort(s2))

(***************************************************************************)
(* JobMatchingTool.find_all_job_matches                                    *)
(***************************************************************************)
\* threshold_score = 80, in tenths
threshold_score == 800

\* keyword_bonus: 15 for every token of job_title longer than 2 characters
\* that occurs verbatim in the candidate title
RECURSIVE KeywordBonus(_, _)
KeywordBonus(job_keywords, title) ==
    IF job_keywords = <<>> THEN 0
    ELSE (IF Len(job_keywords[1]) > 2 /\ Contains(title, job_keywords[1]) THEN 15 ELSE 0)
           + KeywordBonus(Tail(job_keywords), title)

\* location_bonus: 20 when the location is in the title, else 10 when in the url
LocationBonus(location, title, url) ==
    IF location # <<>> /\ Contains(title, location) THEN 20
    ELSE IF location # <<>> /\ Contains(url, location) THEN 10
    ELSE 0

\* the scored copy of one link; job_title and location are already lower-cased,
\* title and url are the link's own strings
ScoreLink(link, job_title, location) ==
    LET title == link.title
        url == link.url
        title_similarity == TokenSortRatio(job_title, title)
        partial_similarity == PartialRatio(job_title, title)
        url_similarity == PartialRatio(job_title, url)
        base_score == Max(10 * title_similarity, 8 * partial_similarity)
        url_bonus == 3 * url_similarity
        location_bonus == LocationBonus(location, title, url)
        keyword_bonus == KeywordBonus(Split(job_title), title)
        total_score == base_score + url_bonus + 10 * location_bonus + 10 * keyword_bonus
    IN [id |-> link.id, title |-> title, url |-> url,
        match_score |-> total_score,
        title_similarity |-> title_similarity,
        partial_similarity |-> partial_similarity,
        location_bonus |-> location_bonus,
        keyword_bonus |-> keyword_bonus]

\* the loop over job_links: links without a title are skipped, links scoring
\* below the threshold are left out
RECURSIVE CollectMatches(_, _, _)
CollectMatches(links, job_title, location) ==
    IF links = <<>> THEN <<>>
    ELSE LET link == links[1]
             rest == CollectMatches(Tail(links), job_title, location)
         IN IF link.title = <<>> THEN rest
            ELSE LET m == ScoreLink(link, job_title, location)
                 IN IF m.match_score >= threshold_score THEN <<m>> \o rest ELSE rest

\* list.sort(key=match_score, reverse=True): stable, descending
RECURSIVE InsertDesc(_, _)
InsertDesc(m, sorted) ==
    IF sorted = <<>> THEN <<m>>
    ELSE IF sorted[1].match_score >= m.match_score
         THEN <<sorted[1]>> \o InsertDesc(m, Tail(sorted))
         ELSE <<m>> \o sorted

\* a faulty variant: an ascending sort
RECURSIVE InsertAsc(_, _)
InsertAsc(m, sorted) ==
    IF sorted = <<>> THEN <<m>>
    ELSE IF sorted[1].match_score <= m.match_score
         THEN <<sorted[1]>> \o InsertAsc(m, Tail(sorted))
         ELSE <<m>> \o sorted

RECURSIVE SortMatchesFrom(_, _)
SortMatchesFrom(ms, acc) ==
    IF ms = <<>> THEN acc ELSE SortMatchesFrom(Tail(ms), InsertDesc(ms[1], acc))

RECURSIVE SortMatchesAscFrom(_, _)
SortMatchesAscFrom(ms, acc) ==
    IF ms = <<>> THEN acc ELSE SortMatchesAscFrom(Tail(ms), InsertAsc(ms[1], acc))

SortMatchesAsc(ms) == SortMatchesAscFrom(ms, <<>>)

SortMatches(ms) == SortMatchesFrom(ms, <<>>)

\* find_all_job_matches(job_links, job_params)
FindAllJobMatches(links, params) ==
    IF params.job_title = <<>>
    THEN [success |-> FALSE, matches |-> <<>>, error |-> "No job title provided"]
    ELSE LET job_title == Lower(params.job_title)
             location == Lower(params.location)
         IN [success |-> TRUE,
             matches |-> SortMatches(CollectMatches(links, job_title, location)),
             error |-> None]

(***************************************************************************)
(* Idle values: each specification runs one component and leaves the       *)
(* variables of the others at these values                                 *)
(***************************************************************************)
\* the value of a result variable before its call has returned
NoMatchResult == [success |-> FALSE, matches |-> <<>>, error |-> None]
NoPagResult == [success |-> FALSE, all_results |-> <<>>, pages_scraped |-> 0]

MatchIdle ==
    /\ m_pc = "idle"
    /\ m_links = <<>>
    /\ m_params = [job_title |-> <<>>, location |-> <<>>]
    /\ m_result = NoMatchResult

PagIdle ==
    /\ p_pc = "idle"
    /\ all_results = <<>>
    /\ page_count = 0
    /\ p_calls = 0
    /\ p_clicks = 0
    /\ p_sleeps = 0
    /\ p_readded = FALSE
    /\ p_seen = {}
    /\ p_errors = FALSE
    /\ p_dropped = FALSE
    /\ p_result = NoPagResult

NoExecResult == [success |-> FALSE, job_listings |-> <<>>, error |-> None]
NoStrategy == [strategy |-> None, fallback_strategy |-> None]
NoPlan == [iframe_src |-> None, iframe_index |-> None, search_input_selector |-> None,
           submit_button_selector |-> None, target_link_url |-> None,
           scroll_amount |-> None]

ExecIdle ==
    /\ e_pc = "idle"
    /\ e_strategy = NoStrategy
    /\ e_plan = NoPlan
    /\ e_scrolls = 0
    /\ e_ops = <<>>
    /\ e_direct = 0
    /\ e_hops = 0
    /\ e_failed = FALSE
    /\ e_result = NoExecResult

NoSearchResult == [called |-> FALSE, success |-> FALSE, search_used |-> FALSE, error |-> None]
NoSearch == [called |-> FALSE, best_confidence |-> 0]
NoDetectResult == [has_pagination |-> FALSE, pagination_type |-> None,
                   total_items |-> -1, error |-> None]
NoExc == [raised |-> FALSE, msg |-> {}]
NoScrapeResult == [success |-> FALSE, job_listings |-> <<>>, all_results |-> <<>>]
NoDoc == [success |-> FALSE, keys |-> {}, error |-> None, error_type |-> None,
          all_job_data |-> <<>>]
NoParams == [job_title |-> <<>>, location |-> <<>>, company_domain |-> FALSE]

OrchIdle ==
    /\ o_pc = "idle"
    /\ job_params = NoParams
    /\ company_url = None
    /\ careers_url = None
    /\ pagination_info = FALSE
    /\ scrape_result = NoScrapeResult
    /\ job_links = <<>>
    /\ o_step5 = NoScrapeResult
    /\ o_extracts = 0
    /\ o_fallbacks = 0
    /\ o_match_in = [called |-> FALSE, links |-> <<>>]
    /\ all_matches = NoMatchResult
    /\ o_exc = NoExc
    /\ o_escaped = FALSE
    /\ sj_exc = NoExc
    /\ result = NoDoc
    /\ output_file = <<>>
    /\ scraped_jobs = <<>>
    /\ visited_urls = {}
    /\ d_i = 0
    /\ d_navs = <<>>
    /\ files_written = {}
    /\ o_search = NoSearch
    /\ search_result = NoSearchResult
    /\ main_pc = "idle"
    /\ open_resources = {}
    /\ exit_code = 0

DetectIdle ==
    /\ dp_pc = "idle"
    /\ dp_text = <<>>
    /\ dp_classes = {}
    /\ dp_result = NoDetectResult

NoIframeResult == [success |-> FALSE, source |-> None, job_listings |-> <<>>]
IframeIdle ==
    /\ f_pc = "idle"
    /\ page_iframes = <<>>
    /\ iframes = <<>>
    /\ f_idx = 0
    /\ job_results = <<>>
    /\ f_log = <<>>
    /\ f_url = <<>>
    /\ f_result = NoIframeResult

LlmIdle ==
    /\ l_pc = "idle"
    /\ l_jobs = <<>>
    /\ current_url = <<>>
    /\ cleaned_jobs = <<>>

(***************************************************************************)
(* SpecMatch: find_all_job_matches applied to bounded inputs               *)
(***************************************************************************)
\* longest job_links list tried
MaxLinks == 3

S_dev_ops == <<"d", "e", "v", " ", "o", "p", "s">>
S_Dev_Ops == <<"D", "e", "v", " ", "O", "p", "s">>
S_ops_dev == <<"o", "p", "s", " ", "d", "e", "v">>
S_dev == <<"d", "e", "v">>
S_Dev == <<"D", "e", "v">>
S_qa == <<"q", "a">>
S_dev_ny == <<"d", "e", "v", " ", "n", "y">>
S_dev_NY == <<"d", "e", "v", " ", "N", "Y">>
S_ny == <<"n", "y">>
S_NY == <<"N", "Y">>
U_dev_ops == <<"/", "d", "e", "v", "-", "o", "p", "s">>
U_qa == <<"/", "q", "a">>
U_qa_ny == <<"/", "q", "a", "/", "n", "y">>
U_Dev == <<"/", "D", "e", "v">>

\* the candidate links the extraction can hand over (title, url)
LinkPool ==
    { [title |-> S_dev_ops, url |-> U_dev_ops],
      [title |-> S_Dev_Ops, url |-> U_qa],
      [title |-> S_ops_dev, url |-> U_qa],
      [title |-> S_qa,      url |-> U_qa],
      [title |-> <<>>,      url |-> U_Dev],
      [title |-> S_dev_ny,  url |-> <<>>],
      [title |-> S_dev_NY,  url |-> U_qa_ny],
      [title |-> S_Dev,     url |-> U_Dev] }

\* a list of links, each carrying its discovery position as id
WithIds(l) == [i \in 1..Len(l) |-> [id |-> i, title |-> l[i].title, url |-> l[i].url]]

TitlePool == {<<>>, S_dev_ops, S_Dev, S_qa}
LocationPool == {<<>>, S_ny, S_NY}

InitMatch ==
    /\ m_pc = "call"
    /\ m_links \in {WithIds(l) : l \in SeqsUpTo(LinkPool, MaxLinks)}
    /\ m_params \in [job_title : TitlePool, location : LocationPool]
    /\ m_result = NoMatchResult
    /\ PagIdle /\ ExecIdle /\ OrchIdle /\ DetectIdle /\ LlmIdle /\ IframeIdle

MatchCall ==
    /\ m_pc = "call"
    /\ m_result' = FindAllJobMatches(m_links, m_params)
    /\ m_pc' = "done"
    /\ UNCHANGED <<m_links, m_params, pvars, evars, ovars, xvars>>

NextMatch == MatchCall

SpecMatch == InitMatch /\ [][NextMatch]_vars

\* ---- properties of find_all_job_matches ----
MatchIds(ms) == {ms[i].id : i \in 1..Len(ms)}

\* C7: for a non-empty target title the call returns a result whose matches
\* all score >= 80, are in non-increasing match_score order with ties in
\* discovery order, and are scored copies of input links; an empty input
\* list gives a result with an empty match list.
Thm_C7 ==
    (m_pc = "done" /\ m_params.job_title # <<>>) =>
        LET ms == m_result.matches IN
        /\ m_result.success
        /\ \A i \in 1..Len(ms) :
              /\ ms[i].match_score >= 800
              /\ ms[i].id \in 1..Len(m_links)
              /\ ms[i].title = m_links[ms[i].id].title
              /\ ms[i].url = m_links[ms[i].id].url
        /\ \A i, j \in 1..Len(ms) :
              i < j => \/ ms[i].match_score > ms[j].match_score
                       \/ (ms[i].match_score = ms[j].match_score /\ ms[i].id < ms[j].id)
        /\ (m_links = <<>> => ms = <<>>)

\* a run with three links: two tie, one scores higher and was discovered later,
\* so the sort has moved it ahead of the tie
Wit_C7 ==
    /\ m_pc = "done"
    /\ Len(m_links) = 3
    /\ Len(m_result.matches) = 3
    /\ m_result.matches[1].id = 3
    /\ m_result.matches[2].match_score = m_result.matches[3].match_score
    /\ m_result.matches[2].title # m_result.matches[3].title

\* a run where a titled link was left out for scoring below 80
Wit_C7_excluded ==
    /\ m_pc = "done"
    /\ m_result.success
    /\ \E i \in 1..Len(m_links) :
          m_links[i].title # <<>> /\ i \notin MatchIds(m_result.matches)

max_pages == 5

\* longest list one call of extractor_func returns
MaxPageItems == 2

\* item.get('url') of an item without a url (None or '')
NoUrl == "no_url"

\* the urls the per-page extractor can return
UrlPool == {"u1", "u2", NoUrl}

\* what one call of extractor_func can return
PageResults == SeqsUpTo([url : UrlPool], MaxPageItems)

\* existing_urls = {item.get('url') for item in all_results if item.get('url')}
ExistingUrls(results) == {results[i].url : i \in 1..Len(results)} \ {NoUrl}

\* a faulty variant: no filtering against the accumulated results
NewResultsAll(results, page_results) == page_results

\* new_results = [item for item in page_results if item.get('url') not in existing_urls]
NewResults(results, page_results) ==
    LET existing_urls == ExistingUrls(results)
        keep(item) == item.url \notin existing_urls
    IN SelectSeq(page_results, keep)

\* a faulty variant: one page too many
WhileConditionOffByOne(n) == n <= max_pages

\* while page_count < self.max_pages
WhileCondition(n) == n < max_pages

\* the dict returned after the loop
PagReturnValue == [success |-> TRUE, all_results |-> all_results, pages_scraped |-> page_count]

InitPag ==
    /\ p_pc = "loop"
    /\ all_results = <<>>
    /\ page_count = 0
    /\ p_calls = 0
    /\ p_clicks = 0
    /\ p_sleeps = 0
    /\ p_readded = FALSE
    /\ p_seen = {}
    /\ p_errors = FALSE
    /\ p_dropped = FALSE
    /\ p_result = NoPagResult
    /\ MatchIdle /\ ExecIdle /\ OrchIdle /\ DetectIdle /\ LlmIdle /\ IframeIdle

\* one loop iteration up to the call of _click_next_page: the extractor
\* returns a list, which is deduplicated against all_results and appended
PagExtract ==
    /\ p_pc = "loop"
    /\ WhileCondition(page_count)
    /\ page_count' = page_count + 1
    /\ p_calls' = p_calls + 1
    /\ \E page_results \in PageResults :
          LET new_results == NewResults(all_results, page_results) IN
          /\ all_results' = all_results \o new_results
          /\ p_readded' = (p_readded \/ \E i \in 1..Len(new_results) :
                                            new_results[i].url \in ExistingUrls(all_results))
          /\ p_seen' = p_seen \cup {page_results[i].url : i \in 1..Len(page_results)}
          /\ p_dropped' = (p_dropped \/ Len(new_results) < Len(page_results))
    /\ p_pc' = "click"
    /\ UNCHANGED <<p_clicks, p_sleeps, p_errors, p_result, mvars, evars, ovars, xvars>>

\* one loop iteration whose extractor call raises: logged, nothing added
PagExtractRaises ==
    /\ p_pc = "loop"
    /\ WhileCondition(page_count)
    /\ page_count' = page_count + 1
    /\ p_calls' = p_calls + 1
    /\ p_errors' = TRUE
    /\ p_pc' = "click"
    /\ UNCHANGED <<all_results, p_readded, p_seen, p_clicks, p_sleeps, p_dropped,
                   p_result, mvars, evars, ovars, xvars>>

\* where the loop goes when _click_next_page returned True: to the
\* asyncio.sleep(3) that ends the iteration
\* (a faulty variant: straight back to the head of the loop)
NextFoundPcNoSleep == "loop"
NextFoundPc == "sleep"

\* _click_next_page found a visible, enabled next control and clicked it
PagClickNext ==
    /\ p_pc = "click"
    /\ p_clicks' = p_clicks + 1
    /\ p_pc' = NextFoundPc
    /\ UNCHANGED <<all_results, page_count, p_calls, p_sleeps, p_readded, p_seen,
                   p_errors, p_dropped, p_result, mvars, evars, ovars, xvars>>

\* _click_next_page returned False: break, then return
PagNoNext ==
    /\ p_pc = "click"
    /\ p_result' = PagReturnValue
    /\ p_pc' = "done"
    /\ UNCHANGED <<all_results, page_count, p_calls, p_clicks, p_sleeps, p_readded,
                   p_seen, p_errors, p_dropped, mvars, evars, ovars, xvars>>

\* await asyncio.sleep(3) after a successful advance
PagSettle ==
    /\ p_pc = "sleep"
    /\ p_sleeps' = p_sleeps + 1
    /\ p_pc' = "loop"
    /\ UNCHANGED <<all_results, page_count, p_calls, p_clicks, p_readded, p_seen,
                   p_errors, p_dropped, p_result, mvars, evars, ovars, xvars>>

\* the while condition fails: return
PagLoopExit ==
    /\ p_pc = "loop"
    /\ ~WhileCondition(page_count)
    /\ p_result' = PagReturnValue
    /\ p_pc' = "done"
    /\ UNCHANGED <<all_results, page_count, p_calls, p_clicks, p_sleeps, p_readded,
                   p_seen, p_errors, p_dropped, mvars, evars, ovars, xvars>>

NextPag ==
    \/ PagExtract
    \/ PagExtractRaises
    \/ PagClickNext
    \/ PagNoNext
    \/ PagSettle
    \/ PagLoopExit

SpecPag == InitPag /\ [][NextPag]_vars

\* the coroutine is awaited to completion: every enabled step is taken
FairSpecPag == SpecPag /\ WF_vars(NextPag)

\* ---- properties of handle_pagination ----
\* C9 as stated: no two accumulated items carry the same url
Orig_C9 ==
    \A i, j \in 1..Len(all_results) :
        (i < j /\ all_results[i].url # NoUrl) => all_results[i].url # all_results[j].url

\* C9 as amended: a url already accumulated from an earlier page is not
\* added again by a later page, so two accumulated items with the same url
\* come from one and the same page's result list; and every url the
\* extractor returned is retained at least once.
Thm_C9 ==
    /\ ~p_readded
    /\ p_seen \ {NoUrl} = ExistingUrls(all_results)

\* a url returned again on a later page was dropped there
Wit_C9 ==
    /\ p_pc = "done"
    /\ page_count = 2
    /\ p_seen = {"u1", "u2"}
    /\ all_results = <<[url |-> "u1"], [url |-> "u2"]>>
    /\ p_dropped
    /\ ~p_errors

\* C10: the callback is invoked at most 5 times, pages_scraped of the
\* returned dict is between 1 and 5, and the loop always reaches its return.
Inv_C10 ==
    /\ p_calls <= 5
    /\ page_count = p_calls
    /\ p_pc = "done" => (p_result.pages_scraped >= 1 /\ p_result.pages_scraped <= 5)

Thm_C10 == []Inv_C10 /\ <>(p_pc = "done")

\* a next control was clickable after every page: five pages, five clicks
Wit_C10 ==
    /\ p_pc = "done"
    /\ p_clicks = 5
    /\ p_calls = 5
    /\ p_result.pages_scraped = 5

\* C11 as stated: an extraction that raises on some page does not end the
\* loop and loses nothing collected on other pages; the returned success is
\* true if any result was collected, and the call reports failure if an
\* extraction raised and no result was ever collected.
Orig_C11 ==
    p_pc = "done" =>
        /\ all_results # <<>> => p_result.success
        /\ (p_errors /\ all_results = <<>>) => ~p_result.success

\* C28 as stated: the loop never advances to a page it does not extract
\* from: when it ends, also at the page cap, the successful clicks on a next
\* control are fewer than the extraction calls.
Orig_C28 == p_pc = "done" => p_clicks < p_calls

(***************************************************************************)
(* SearchAndPaginationTool.detect_pagination_info                          *)
(***************************************************************************)
\* longest page text tried, in words
MaxWords == 5

\* the words a page text is made of
Words == {"Showing", "1-10", "of", "47", "Next", "jobs"}
ClassNames == {"pagination"}

\* str.lower() on a word
LowerWord(w) ==
    IF w = "Showing" THEN "showing" ELSE IF w = "Next" THEN "next" ELSE w
LowerText(text) == [i \in 1..Len(text) |-> LowerWord(text[i])]

\* "indicator in text_content"
InText(indicator, text) == \E i \in 1..Len(text) : text[i] = indicator

\* the words \d+\s*-?\s*\d+ matches, and those (\d+) matches with their value
IsRangeWord(w) == w \in {"1-10", "47"}
IsNumberWord(w) == w = "47"
IntOf(w) == IF w = "47" THEN 47 ELSE 0

\* re.search(r'showing\s+\d+\s*-?\s*\d+\s+of\s+(\d+)', text_content): the
\* positions where a match starts
ShowingMatches(text) ==
    {i \in 1..(Len(text) - 3) :
        /\ text[i] = "showing"
        /\ IsRangeWord(text[i + 1])
        /\ text[i + 2] = "of"
        /\ IsNumberWord(text[i + 3])}

\* total_items = None
NoTotal == -1

pagination_indicators ==
    << <<"next", "Next button">>, <<"previous", "Previous button">>,
       <<"pagination", "Pagination container">>, <<"page-", "Page numbers">> >>

\* "import re" further down the function body makes re a local name of the
\* whole function: it is unbound while the indicators are scanned
re_is_bound_in_scan == FALSE

\* soup.find(class_=re.compile(indicator, re.I))
ClassFound(indicator, classes) == indicator \in classes

\* the loop over pagination_indicators from position k on:
\* [raised, has_pagination, pagination_type]
RECURSIVE ScanIndicators(_, _, _)
ScanIndicators(k, text, classes) ==
    IF k > Len(pagination_indicators)
    THEN [raised |-> FALSE, has_pagination |-> FALSE, pagination_type |-> None]
    ELSE IF InText(pagination_indicators[k][1], text)
    THEN [raised |-> FALSE, has_pagination |-> TRUE,
          pagination_type |-> pagination_indicators[k][2]]
    ELSE IF ~re_is_bound_in_scan
    THEN [raised |-> TRUE, has_pagination |-> FALSE, pagination_type |-> None]
    ELSE IF ClassFound(pagination_indicators[k][1], classes)
    THEN [raised |-> FALSE, has_pagination |-> TRUE,
          pagination_type |-> pagination_indicators[k][2]]
    ELSE ScanIndicators(k + 1, text, classes)

E_detect == "str(e)"

\* the body of detect_pagination_info once the page was read
DetectPaginationInfo(page_text, classes) ==
    LET text_content == LowerText(page_text)
        scan == ScanIndicators(1, text_content, classes)
        showing == ShowingMatches(text_content)
    IN IF scan.raised
       THEN [has_pagination |-> FALSE, pagination_type |-> None,
             total_items |-> NoTotal, error |-> E_detect]
       ELSE IF showing # {}
       THEN [has_pagination |-> TRUE, pagination_type |-> scan.pagination_type,
             total_items |-> IntOf(text_content[(CHOOSE i \in showing :
                                       \A j \in showing : i <= j) + 3]),
             error |-> None]
       ELSE [has_pagination |-> scan.has_pagination,
             pagination_type |-> scan.pagination_type,
             total_items |-> NoTotal, error |-> None]

InitDetect ==
    /\ dp_pc = "call"
    /\ dp_text \in SeqsUpTo(Words, MaxWords)
    /\ dp_classes \in SUBSET ClassNames
    /\ dp_result = NoDetectResult
    /\ MatchIdle /\ PagIdle /\ ExecIdle /\ OrchIdle /\ LlmIdle /\ IframeIdle

\* get_page_html returns the page and the function runs to its return
DetectCall ==
    /\ dp_pc = "call"
    /\ dp_result' = DetectPaginationInfo(dp_text, dp_classes)
    /\ dp_pc' = "done"
    /\ UNCHANGED <<dp_text, dp_classes, mvars, pvars, evars, ovars, lvars, ivars>>

\* get_page_html raises: the except clause returns has_pagination False
DetectPageUnreadable ==
    /\ dp_pc = "call"
    /\ dp_result' = [has_pagination |-> FALSE, pagination_type |-> None,
                     total_items |-> NoTotal, error |-> "page"]
    /\ dp_pc' = "done"
    /\ UNCHANGED <<dp_text, dp_classes, mvars, pvars, evars, ovars, lvars, ivars>>

NextDetect == DetectCall \/ DetectPageUnreadable

SpecDetect == InitDetect /\ [][NextDetect]_vars

\* C12 as stated: for a page (that could be read) whose text contains a
\* "showing A-B of N" pattern the call returns has_pagination = true and
\* total_items = N, whether or not a pagination keyword occurs as well.
Orig_C12 ==
    (dp_pc = "done" /\ dp_result.error # "page"
        /\ \E i \in 1..(Len(dp_text) - 3) :
              SubSeq(dp_text, i, i + 3) = <<"Showing", "1-10", "of", "47">>)
        => (dp_result.has_pagination /\ dp_result.total_items = 47)

(***************************************************************************)
(* UniversalJobScraper._execute_extraction_strategy and its strategies     *)
(***************************************************************************)
\* largest scroll_amount the reasoning service returns in the model
MaxScrollAmount == 2

\* plan.get("scroll_amount", 5)
default_scroll_amount == 5

Missing == "missing"

StrategyTags == {"iframe_navigation", "use_search_form", "extract_current_page",
                 "navigate_to_link", "scroll_and_extract", "something_else"}

\* the strategy dicts the reasoning service can return
Strategies ==
    {st \in [strategy : StrategyTags,
             fallback_strategy : StrategyTags \cup {None}] :
        st.fallback_strategy \in {None, "extract_current_page", st.strategy}}

\* the execution plans the reasoning service can return; None is JSON null,
\* Missing an absent key; scroll counts are encoded as strings of digits
ScrollAmounts == {Missing, None} \cup {ToString(n) : n \in 0..MaxScrollAmount}
Plans ==
    [iframe_src : {None, "abs", "rel"},
     iframe_index : {None, "0"},
     search_input_selector : {None, "sel"},
     submit_button_selector : {None, "btn"},
     target_link_url : {None, "abs", "rel"},
     scroll_amount : ScrollAmounts]

\* the listings one direct extraction can produce
ExecListings == {<<>>, <<"j1">>, <<"j1", "j2">>}

\* scroll_amount = plan.get("scroll_amount", 5) as a number (not for null)
ScrollAmountOf(plan) ==
    IF plan.scroll_amount = Missing THEN default_scroll_amount
    ELSE CHOOSE n \in 0..(MaxScrollAmount + 1) : ToString(n) = plan.scroll_amount

Failure(err) == [success |-> FALSE, job_listings |-> <<>>, error |-> err]
Success(listings) == [success |-> TRUE, job_listings |-> listings, error |-> None]

\* a faulty variant: an unknown tag is taken for scroll_and_extract
DispatchTargetUnknownScrolls(strategy_type) ==
    CASE strategy_type = "iframe_navigation" -> "iframe"
      [] strategy_type = "use_search_form" -> "search"
      [] strategy_type = "extract_current_page" -> "direct"
      [] strategy_type = "navigate_to_link" -> "navlink"
      [] OTHER -> "scroll"

\* the branch of the if/elif chain the strategy tag selects
DispatchTarget(strategy_type) ==
    CASE strategy_type = "iframe_navigation" -> "iframe"
      [] strategy_type = "use_search_form" -> "search"
      [] strategy_type = "extract_current_page" -> "direct"
      [] strategy_type = "navigate_to_link" -> "navlink"
      [] strategy_type = "scroll_and_extract" -> "scroll"
      [] OTHER -> "direct"

\* the except branch of the executor: one direct extraction when a fallback
\* tag is given and differs from the strategy, else a failure
ExceptBranch(strategy) ==
    IF strategy.fallback_strategy # None /\ strategy.fallback_strategy # strategy.strategy
    THEN [pc |-> "direct", hop |-> 1]
    ELSE [pc |-> "done", hop |-> 0]

\* a faulty variant: a failed result is retried by direct extraction, the failed
\* retry once more
AfterStrategyRetry(r, hops) ==
    IF ~r.success /\ hops < 2 THEN [pc |-> "direct", hop |-> 1] ELSE [pc |-> "done", hop |-> 0]

\* `return await self._execute_...(...)`: whatever the strategy (or the
\* direct extraction of the except branch) returned is returned
AfterStrategy(r, hops) == [pc |-> "done", hop |-> 0]

InitExec ==
    /\ e_pc = "dispatch"
    /\ e_strategy \in Strategies
    /\ e_plan \in Plans
    /\ e_scrolls = 0
    /\ e_ops = <<>>
    /\ e_direct = 0
    /\ e_hops = 0
    /\ e_failed = FALSE
    /\ e_result = NoExecResult
    /\ MatchIdle /\ PagIdle /\ OrchIdle /\ DetectIdle /\ LlmIdle /\ IframeIdle

\* a strategy returns r to the executor
StrategyReturns(r) ==
    /\ e_result' = r
    /\ e_failed' = (e_failed \/ (~r.success /\ e_hops = 0
                                   /\ e_strategy.strategy # "extract_current_page"))
    /\ e_pc' = "returned"

\* the if/elif chain on strategy_type
ExecDispatch ==
    /\ e_pc = "dispatch"
    /\ e_pc' = DispatchTarget(e_strategy.strategy)
    /\ UNCHANGED <<e_strategy, e_plan, e_scrolls, e_ops, e_direct, e_hops, e_failed,
                   e_result, mvars, pvars, ovars, xvars>>

\* _execute_iframe_strategy with iframe_src: navigate (result ignored), sleep
ExecIframeNavigate ==
    /\ e_pc = "iframe"
    /\ e_plan.iframe_src # None
    /\ e_ops' = e_ops \o <<"navigate", "sleep">>
    /\ e_pc' = "direct"
    /\ UNCHANGED <<e_strategy, e_plan, e_scrolls, e_direct, e_hops, e_failed,
                   e_result, mvars, pvars, ovars, xvars>>

\* _execute_iframe_strategy without iframe_src: compares iframe_index with
\* len(frames); nothing is switched, extraction reads the current page
ExecIframeAccess ==
    /\ e_pc = "iframe"
    /\ e_plan.iframe_src = None
    /\ e_plan.iframe_index # None
    /\ e_pc' = "direct"
    /\ UNCHANGED <<e_strategy, e_plan, e_scrolls, e_ops, e_direct, e_hops, e_failed,
                   e_result, mvars, pvars, ovars, xvars>>

\* _execute_iframe_strategy without iframe_src and with iframe_index null:
\* `None < len(frames)` raises TypeError, caught by the strategy
ExecIframeTypeError ==
    /\ e_pc = "iframe"
    /\ e_plan.iframe_src = None
    /\ e_plan.iframe_index = None
    /\ StrategyReturns(Failure("TypeError"))
    /\ UNCHANGED <<e_strategy, e_plan, e_scrolls, e_ops, e_direct, e_hops,
                   mvars, pvars, ovars, xvars>>

\* _execute_search_strategy without a selector
ExecSearchNoSelector ==
    /\ e_pc = "search"
    /\ e_plan.search_input_selector = None
    /\ StrategyReturns(Failure("No search selector provided"))
    /\ UNCHANGED <<e_strategy, e_plan, e_scrolls, e_ops, e_direct, e_hops,
                   mvars, pvars, ovars, xvars>>

\* _execute_search_strategy: the fill fails and its result is returned
ExecSearchFillFails ==
    /\ e_pc = "search"
    /\ e_plan.search_input_selector # None
    /\ e_ops' = e_ops \o <<"fill_failed">>
    /\ StrategyReturns(Failure("fill failed"))
    /\ UNCHANGED <<e_strategy, e_plan, e_scrolls, e_direct, e_hops, mvars, pvars, ovars, xvars>>

\* _execute_search_strategy: fill, click or submit (result ignored), sleep
ExecSearchSubmit ==
    /\ e_pc = "search"
    /\ e_plan.search_input_selector # None
    /\ e_ops' = e_ops \o <<"fill",
                           IF e_plan.submit_button_selector # None THEN "click" ELSE "submit",
                           "sleep">>
    /\ e_pc' = "direct"
    /\ UNCHANGED <<e_strategy, e_plan, e_scrolls, e_direct, e_hops, e_failed,
                   e_result, mvars, pvars, ovars, xvars>>

\* _execute_navigation_strategy without a target url
ExecNavNoTarget ==
    /\ e_pc = "navlink"
    /\ e_plan.target_link_url = None
    /\ StrategyReturns(Failure("No target URL"))
    /\ UNCHANGED <<e_strategy, e_plan, e_scrolls, e_ops, e_direct, e_hops,
                   mvars, pvars, ovars, xvars>>

\* _execute_navigation_strategy: navigate (result ignored), sleep
ExecNavigateLink ==
    /\ e_pc = "navlink"
    /\ e_plan.target_link_url # None
    /\ e_ops' = e_ops \o <<"navigate", "sleep">>
    /\ e_pc' = "direct"
    /\ UNCHANGED <<e_strategy, e_plan, e_scrolls, e_direct, e_hops, e_failed,
                   e_result, mvars, pvars, ovars, xvars>>

\* _execute_scroll_strategy: one loop iteration after which the page is taller
ExecScrollGrows ==
    /\ e_pc = "scroll"
    /\ e_plan.scroll_amount # None
    /\ e_scrolls < ScrollAmountOf(e_plan)
    /\ e_scrolls' = e_scrolls + 1
    /\ e_ops' = e_ops \o <<"scroll", "sleep">>
    /\ UNCHANGED <<e_pc, e_strategy, e_plan, e_direct, e_hops, e_failed, e_result,
                   mvars, pvars, ovars, xvars>>

\* _execute_scroll_strategy: one loop iteration after which the height is
\* unchanged: break, then direct extraction
ExecScrollStalls ==
    /\ e_pc = "scroll"
    /\ e_plan.scroll_amount # None
    /\ e_scrolls < ScrollAmountOf(e_plan)
    /\ e_scrolls' = e_scrolls + 1
    /\ e_ops' = e_ops \o <<"scroll", "sleep">>
    /\ e_pc' = "direct"
    /\ UNCHANGED <<e_strategy, e_plan, e_direct, e_hops, e_failed, e_result,
                   mvars, pvars, ovars, xvars>>

\* _execute_scroll_strategy: the range is exhausted, direct extraction
ExecScrollEnds ==
    /\ e_pc = "scroll"
    /\ e_plan.scroll_amount # None
    /\ e_scrolls >= ScrollAmountOf(e_plan)
    /\ e_pc' = "direct"
    /\ UNCHANGED <<e_strategy, e_plan, e_scrolls, e_ops, e_direct, e_hops, e_failed,
                   e_result, mvars, pvars, ovars, xvars>>

\* _execute_scroll_strategy: page.evaluate raises, or range(None) raises
\* TypeError for a null scroll_amount; caught by the strategy
ExecScrollRaises ==
    /\ e_pc = "scroll"
    /\ IF e_plan.scroll_amount = None THEN TRUE
       ELSE e_scrolls = 0 \/ e_scrolls < ScrollAmountOf(e_plan)
    /\ StrategyReturns(Failure("scroll failed"))
    /\ UNCHANGED <<e_strategy, e_plan, e_scrolls, e_ops, e_direct, e_hops,
                   mvars, pvars, ovars, xvars>>

\* _execute_direct_extraction: settle, lazy-load scrolls, read the page,
\* extract listings
ExecDirectOk ==
    /\ e_pc = "direct"
    /\ e_direct' = e_direct + 1
    /\ e_ops' = e_ops \o <<"sleep", "scroll", "sleep", "read">>
    /\ \E listings \in ExecListings : StrategyReturns(Success(listings))
    /\ UNCHANGED <<e_strategy, e_plan, e_scrolls, e_hops, mvars, pvars, ovars, xvars>>

\* _execute_direct_extraction: get_page_html raises, caught
ExecDirectFails ==
    /\ e_pc = "direct"
    /\ e_direct' = e_direct + 1
    /\ e_ops' = e_ops \o <<"sleep", "scroll", "sleep", "read_failed">>
    /\ StrategyReturns(Failure("page content"))
    /\ UNCHANGED <<e_strategy, e_plan, e_scrolls, e_hops, mvars, pvars, ovars, xvars>>

\* back in _execute_extraction_strategy: the strategy's result is returned.
\* (No strategy lets an exception out, so the except branch is entered only
\* from e_pc = "raised", which no action sets.)
ExecReturn ==
    /\ e_pc \in {"returned", "raised"}
    /\ LET a == IF e_pc = "raised" THEN ExceptBranch(e_strategy)
                ELSE AfterStrategy(e_result, e_hops)
       IN /\ e_pc' = a.pc
          /\ e_hops' = e_hops + a.hop
    /\ UNCHANGED <<e_strategy, e_plan, e_scrolls, e_ops, e_direct, e_failed,
                   e_result, mvars, pvars, ovars, xvars>>

NextExec ==
    \/ ExecDispatch
    \/ ExecIframeNavigate
    \/ ExecIframeAccess
    \/ ExecIframeTypeError
    \/ ExecSearchNoSelector
    \/ ExecSearchFillFails
    \/ ExecSearchSubmit
    \/ ExecNavNoTarget
    \/ ExecNavigateLink
    \/ ExecScrollGrows
    \/ ExecScrollStalls
    \/ ExecScrollEnds
    \/ ExecScrollRaises
    \/ ExecDirectOk
    \/ ExecDirectFails
    \/ ExecReturn

SpecExec == InitExec /\ [][NextExec]_vars

\* the coroutine is awaited to completion: every enabled step is taken
FairSpecExec == SpecExec /\ WF_vars(NextExec)

\* ---- properties of the strategy executor ----
FallbackStrategies == {"iframe_navigation", "use_search_form", "navigate_to_link",
                       "scroll_and_extract"}

\* C3 as stated: whenever the selected strategy (other than
\* extract_current_page) has failed, the executor has made a fallback attempt
\* of direct extraction by the time it returns.
Orig_C3 ==
    (e_pc = "done" /\ e_strategy.strategy \in FallbackStrategies /\ e_failed)
        => e_hops >= 1

\* C4: at most one fallback hop, whose target is direct extraction; direct
\* extraction runs at most twice; the executor ends with success(candidates)
\* or failure(error), and it always ends.
Inv_C4 ==
    /\ e_hops <= 1
    /\ e_direct <= 2
    /\ e_hops = 1 => e_pc \in {"direct", "returned", "done"}
    /\ e_pc = "done" =>
          \/ (e_result.success /\ e_result.job_listings \in ExecListings
                /\ e_result.error = None)
          \/ (~e_result.success /\ e_result.error # None)

Thm_C4 == []Inv_C4 /\ <>(e_pc = "done")

\* a strategy other than extract_current_page ended in failure although its
\* own direct extraction ran: nothing further was tried
Wit_C4 ==
    /\ e_pc = "done"
    /\ e_strategy.strategy = "navigate_to_link"
    /\ e_strategy.fallback_strategy = "extract_current_page"
    /\ e_direct = 1
    /\ ~e_result.success

\* the strategy lacks the parameters it needs
LacksRequiredParameters(strategy, plan) ==
    \/ strategy.strategy = "iframe_navigation"
          /\ plan.iframe_src = None /\ plan.iframe_index = None
    \/ strategy.strategy = "use_search_form" /\ plan.search_input_selector = None
    \/ strategy.strategy = "navigate_to_link" /\ plan.target_link_url = None

\* C22 as stated: a strategy that lacks its required parameters degrades to
\* direct extraction of the current page: the executor does not return
\* without having run it.
Orig_C22 ==
    (e_pc = "done" /\ LacksRequiredParameters(e_strategy, e_plan)) => e_direct >= 1

KnownStrategies == {"iframe_navigation", "use_search_form", "extract_current_page",
                    "navigate_to_link", "scroll_and_extract"}

\* C23: for a strategy tag that is none of the five known ones the executor
\* goes straight to direct extraction: no strategy branch is entered, no
\* navigation, fill, click or submit and no scroll of the scroll strategy is
\* performed, and direct extraction has run exactly once when it returns.
Thm_C23 ==
    e_strategy.strategy \notin KnownStrategies \cup {None} =>
        /\ e_pc \in {"dispatch", "direct", "returned", "done"}
        /\ e_scrolls = 0
        /\ \A i \in 1..Len(e_ops) : e_ops[i] \in {"sleep", "scroll", "read", "read_failed"}
        /\ e_ops \in {<<>>, <<"sleep", "scroll", "sleep", "read">>,
                      <<"sleep", "scroll", "sleep", "read_failed">>}
        /\ e_direct = (IF e_pc \in {"returned", "done"} THEN 1 ELSE 0)

\* an unknown tag was executed and direct extraction found listings
Wit_C23 ==
    /\ e_pc = "done"
    /\ e_strategy.strategy = "something_else"
    /\ e_direct = 1
    /\ e_result.success
    /\ e_result.job_listings # <<>>

\* the scroll strategy never scrolls more often than the plan says (5 when
\* the plan has no count), and has run direct extraction when it returns
Inv_C27 ==
    e_strategy.strategy = "scroll_and_extract" =>
        /\ e_plan.scroll_amount # None => e_scrolls <= ScrollAmountOf(e_plan)
        /\ e_plan.scroll_amount = None => e_scrolls = 0
        /\ e_pc \in {"returned", "done"} => e_direct >= 1

\* C27 as stated: the scroll strategy ends for every execution plan, scrolls
\* at most the given number of times (5 by default), and in every case then
\* performs direct extraction.
Orig_C27 == []Inv_C27 /\ <>(e_pc = "done")

(***************************************************************************)
(* Settle delays: the pagination loop and the strategy executor together   *)
(***************************************************************************)
SpecSettle == (InitPag \/ InitExec) /\ [][NextPag \/ NextExec]_vars

\* the page operations that change the state of the page, and the reads of
\* its content by an extraction
StateChangingOps == {"navigate", "fill", "click", "submit", "scroll"}
ReadOps == {"read", "read_failed"}

\* C20: between every operation that changes the page (navigation, search
\* fill and submit, scroll) and the next read of the page content a settle
\* delay is executed; every successful click on a next control has been
\* followed by its delay whenever an extraction starts or the loop is left.
Thm_C20 ==
    /\ \A i \in 1..Len(e_ops) : \A k \in (i + 1)..Len(e_ops) :
          (e_ops[i] \in StateChangingOps /\ e_ops[k] \in ReadOps)
              => \E j \in (i + 1)..(k - 1) : e_ops[j] = "sleep"
    /\ p_pc \in {"loop", "click", "done"} => p_sleeps = p_clicks
    /\ p_pc = "sleep" => p_clicks = p_sleeps + 1

\* a strategy navigated and the page was then read by the extraction
Wit_C20 ==
    \E i \in 1..Len(e_ops) : \E k \in (i + 1)..Len(e_ops) :
        e_ops[i] = "navigate" /\ e_ops[k] = "read"

(***************************************************************************)
(* UniversalJobScraper._llm_extract_jobs: validation of the parsed records *)
(***************************************************************************)
\* longest list of records tried
MaxJobs == 2

\* a key the dict does not have, and the JSON null
Absent == <<"<absent>">>
Null == <<"<null>">>

T_dev == <<"D", "e", "v">>
T_qa == <<"Q", "A">>
T_ops == <<"O", "p", "s">>
L_http == <<"h", "t", "t", "p">>
L_base == <<"h", "t", "t", "p", ":", "/", "/", "x", "/", "c", "/", "l">>
L_abs == <<"h", "t", "t", "p", ":", "/", "/", "y", "/", "j">>
L_rooted == <<"/", "j", "/", "1">>
L_rel == <<"j", "/", "2">>
L_hash == <<"#">>

\* one entry of the reply: a dict with the keys the validation looks at, or
\* something that is not a dict
JobDict(title, job_title, name, url, link) ==
    [is_dict |-> TRUE, title |-> title, job_title |-> job_title, position |-> Absent,
     role |-> Absent, name |-> name, url |-> url, link |-> link, href |-> Absent,
     job_url |-> Absent, apply_url |-> Absent]
NonDict == [JobDict(Absent, Absent, Absent, Absent, Absent) EXCEPT !.is_dict = FALSE]

JobPool ==
    { JobDict(T_dev, Absent, Absent, L_rooted, Absent),
      JobDict(T_dev, Absent, Absent, L_abs, Absent),
      JobDict(T_dev, Absent, Absent, L_hash, Absent),
      JobDict(T_dev, Absent, Absent, <<>>, Absent),
      JobDict(T_dev, Absent, Absent, Null, Absent),
      JobDict(T_dev, Absent, Absent, Absent, L_rel),
      JobDict(T_dev, Absent, Absent, Absent, Absent),
      JobDict(Absent, T_qa, T_ops, L_rooted, Absent),
      JobDict(Absent, Absent, T_ops, L_rooted, Absent),
      JobDict(Absent, Absent, Absent, L_rooted, Absent),
      JobDict(<<>>, T_qa, Absent, L_rooted, Absent),
      JobDict(Absent, <<>>, Absent, L_abs, Absent),
      JobDict(Null, Absent, Absent, L_abs, Absent),
      NonDict }

\* the value of the first key of keys the dict has, or Absent
RECURSIVE FirstPresent(_, _)
FirstPresent(job, keys) ==
    IF keys = <<>> THEN Absent
    ELSE IF job[Head(keys)] # Absent THEN job[Head(keys)]
    ELSE FirstPresent(job, Tail(keys))

title_aliases == <<"job_title", "position", "role", "name">>
url_aliases == <<"link", "href", "job_url", "apply_url">>

\* the title after "if 'title' not in job": Absent when the record is skipped
ResolveTitle(job) ==
    IF job.title # Absent THEN job.title ELSE FirstPresent(job, title_aliases)

\* position of the n-th "/" of s (0 if there is none)
RECURSIVE NthSlash(_, _, _)
NthSlash(s, n, from) ==
    IF from > Len(s) THEN 0
    ELSE IF s[from] = "/" THEN (IF n = 1 THEN from ELSE NthSlash(s, n - 1, from + 1))
    ELSE NthSlash(s, n, from + 1)

\* position of the last "/" of s (0 if there is none)
LastSlash(s) ==
    IF \E i \in 1..Len(s) : s[i] = "/"
    THEN CHOOSE i \in 1..Len(s) : s[i] = "/" /\ \A j \in (i + 1)..Len(s) : s[j] # "/"
    ELSE 0

\* urllib.parse.urljoin(base, url) for a path reference: a rooted path
\* replaces the path of base, any other replaces its last segment
urljoin(base, url) ==
    IF url # <<>> /\ url[1] = "/"
    THEN LET third == NthSlash(base, 3, 1)
         IN (IF third = 0 THEN base ELSE SubSeq(base, 1, third - 1)) \o url
    ELSE SubSeq(base, 1, LastSlash(base)) \o url

\* Python truth value of a str-or-None
Truthy(v) == v # <<>> /\ v # Null

\* the url after "if 'url' not in job" and the conversion of relative urls
ResolveUrl(job, base) ==
    LET aliased == FirstPresent(job, url_aliases)
        url == IF job.url # Absent THEN job.url
               ELSE IF aliased # Absent THEN aliased
               ELSE base
    IN IF Truthy(url) /\ url # L_hash /\ ~StartsWith(url, L_http)
       THEN urljoin(base, url)
       ELSE url

CleanedJob(job, base) == [title |-> ResolveTitle(job), url |-> ResolveUrl(job, base)]

InitLlm ==
    /\ l_pc = "loop"
    /\ l_jobs \in SeqsUpTo(JobPool, MaxJobs)
    /\ current_url = L_base
    /\ cleaned_jobs = <<>>
    /\ MatchIdle /\ PagIdle /\ ExecIdle /\ OrchIdle /\ DetectIdle /\ IframeIdle

\* "if not isinstance(job, dict): continue"
LlmSkipNonDict ==
    /\ l_pc = "loop"
    /\ l_jobs # <<>>
    /\ ~Head(l_jobs).is_dict
    /\ l_jobs' = Tail(l_jobs)
    /\ UNCHANGED <<l_pc, current_url, cleaned_jobs, mvars, pvars, evars, ovars, dvars, ivars>>

\* neither 'title' nor one of its aliases is a key: continue
LlmSkipNoTitle ==
    /\ l_pc = "loop"
    /\ l_jobs # <<>>
    /\ Head(l_jobs).is_dict
    /\ ResolveTitle(Head(l_jobs)) = Absent
    /\ l_jobs' = Tail(l_jobs)
    /\ UNCHANGED <<l_pc, current_url, cleaned_jobs, mvars, pvars, evars, ovars, dvars, ivars>>

\* the record is kept: cleaned_jobs.append(job)
LlmKeep ==
    /\ l_pc = "loop"
    /\ l_jobs # <<>>
    /\ Head(l_jobs).is_dict
    /\ ResolveTitle(Head(l_jobs)) # Absent
    /\ cleaned_jobs' = Append(cleaned_jobs, CleanedJob(Head(l_jobs), current_url))
    /\ l_jobs' = Tail(l_jobs)
    /\ UNCHANGED <<l_pc, current_url, mvars, pvars, evars, ovars, dvars, ivars>>

\* return cleaned_jobs
LlmReturn ==
    /\ l_pc = "loop"
    /\ l_jobs = <<>>
    /\ l_pc' = "done"
    /\ UNCHANGED <<l_jobs, current_url, cleaned_jobs, mvars, pvars, evars, ovars, dvars, ivars>>

NextLlm == LlmSkipNonDict \/ LlmSkipNoTitle \/ LlmKeep \/ LlmReturn

SpecLlm == InitLlm /\ [][NextLlm]_vars

\* C13 as stated: every returned record has an absolute url; no relative
\* and no placeholder url is returned.
Orig_C13 ==
    l_pc = "done" =>
        \A i \in 1..Len(cleaned_jobs) : StartsWith(cleaned_jobs[i].url, L_http)

\* C14 as stated: every returned record has a non-empty title.
Orig_C14 ==
    l_pc = "done" =>
        \A i \in 1..Len(cleaned_jobs) : cleaned_jobs[i].title \notin {<<>>, Null, Absent}

(***************************************************************************)
(* IframeHandler: detect_and_handle_iframes                                *)
(***************************************************************************)
\* most iframe elements on the page tried
MaxFrames == 2

K_job == <<"j", "o", "b">>
K_career == <<"c", "a", "r", "e", "e", "r">>
K_position == <<"p", "o", "s", "i", "t", "i", "o", "n">>
K_apply == <<"a", "p", "p", "l", "y">>
K_workday == <<"w", "o", "r", "k", "d", "a", "y">>
K_greenhouse == <<"g", "r", "e", "e", "n", "h", "o", "u", "s", "e">>
K_lever == <<"l", "e", "v", "e", "r">>
K_listing == <<"l", "i", "s", "t", "i", "n", "g">>
K_icims == <<"i", "c", "i", "m", "s">>
K_taleo == <<"t", "a", "l", "e", "o">>
K_smartrecruiters == <<"s", "m", "a", "r", "t", "r", "e", "c", "r", "u", "i", "t", "e", "r", "s">>
K_jobvite == <<"j", "o", "b", "v", "i", "t", "e">>
K_None == <<"N", "o", "n", "e">>
I_lever == <<"h", "t", "t", "p", ":", "/", "/", "l", "e", "v", "e", "r", "/", "j">>
I_job == <<"/", "j", "o", "b">>
I_jOb == <<"j", "O", "b">>

src_keywords == <<K_job, K_career, K_position, K_apply, K_workday, K_greenhouse, K_lever>>
id_name_keywords == <<K_job, K_career, K_position, K_listing>>
class_keywords == <<K_job, K_career, K_position>>
title_keywords == <<K_job, K_career, K_position>>
ats_systems == <<K_workday, K_greenhouse, K_lever, K_icims, K_taleo, K_smartrecruiters,
                 K_jobvite>>

\* any(keyword in s for keyword in keywords)
AnyIn(keywords, s) == \E i \in 1..Len(keywords) : Contains(s, keywords[i])

\* (v or ''), and str(v) inside an f-string, for an attribute that may be None
OrEmpty(v) == IF v = Null THEN <<>> ELSE v
PyStr(v) == IF v = Null THEN K_None ELSE v

\* ' '.join(classes)
RECURSIVE JoinClasses(_)
JoinClasses(classes) ==
    IF classes = <<>> THEN <<>>
    ELSE IF Len(classes) = 1 THEN classes[1]
    ELSE classes[1] \o <<" ">> \o JoinClasses(Tail(classes))

\* a faulty variant: no bonus for a known ATS
AtsBonusNone(src) == 0
\* "Bonus for known ATS systems": 60 when the lower-cased src names one
AtsBonus(src) == IF AnyIn(ats_systems, src) THEN 60 ELSE 0

\* _calculate_iframe_relevance(iframe_info)
_calculate_iframe_relevance(iframe_info) ==
    LET src == Lower(OrEmpty(iframe_info.src))
        id_name == Lower(PyStr(iframe_info.id) \o <<" ">> \o PyStr(iframe_info.name))
        classes == Lower(JoinClasses(iframe_info.class))
        title == Lower(OrEmpty(iframe_info.title))
    IN (IF AnyIn(src_keywords, src) THEN 50 ELSE 0)
       + (IF AnyIn(id_name_keywords, id_name) THEN 30 ELSE 0)
       + (IF AnyIn(class_keywords, classes) THEN 20 ELSE 0)
       + (IF AnyIn(title_keywords, title) THEN 25 ELSE 0)
       + AtsBonus(src)

\* one iframe element: the attributes the handler reads (Null: attribute absent)
IframeElement(src, data_src, id, class, title) ==
    [src |-> src, data_src |-> data_src, id |-> id, name |-> Null, class |-> class,
     title |-> title]

ElementPool ==
    { IframeElement(I_lever, Null, Null, <<>>, Null),
      IframeElement(I_job, Null, K_job, <<>>, Null),
      IframeElement(L_rel, Null, Null, <<K_career>>, Null),
      IframeElement(Null, L_abs, Null, <<>>, I_jOb),
      IframeElement(Null, Null, Null, <<>>, Null),
      IframeElement(Null, Null, K_listing, <<>>, Null),
      IframeElement(L_abs, Null, Null, <<>>, Null) }

\* iframes.sort(key=relevance_score, reverse=True): stable, descending
RECURSIVE InsertByRelevance(_, _)
InsertByRelevance(f, sorted) ==
    IF sorted = <<>> THEN <<f>>
    ELSE IF sorted[1].relevance_score >= f.relevance_score
         THEN <<sorted[1]>> \o InsertByRelevance(f, Tail(sorted))
         ELSE <<f>> \o sorted

RECURSIVE SortIframesFrom(_, _)
SortIframesFrom(fs, acc) ==
    IF fs = <<>> THEN acc ELSE SortIframesFrom(Tail(fs), InsertByRelevance(fs[1], acc))

\* a faulty variant: the list is left in document order
SortIframesKeepOrder(fs) == fs
SortIframes(fs) == SortIframesFrom(fs, <<>>)

\* _detect_iframes: one iframe_info per element, scored once, then sorted;
\* doc is the element's position in the document (1-based)
DetectIframes(elements) ==
    SortIframes([i \in 1..Len(elements) |->
                    [doc |-> i, info |-> elements[i],
                     relevance_score |-> _calculate_iframe_relevance(elements[i])]])

\* page.frames: the main frame (0) followed by the page's iframes in document
\* order, as long as the handler has not navigated away from the page
MainFrame == 0
PageFrames(elements) == <<MainFrame>> \o [i \in 1..Len(elements) |-> i]

\* the frames of a page the handler has navigated to: its main frame, and
\* possibly a frame of its own
OtherMainFrame == 0 - 1
OtherSubFrame == 0 - 2
NoFrame == 0 - 9
FramesAfterNavigation == {<<OtherMainFrame>>, <<OtherMainFrame, OtherSubFrame>>}

Navigated(log) == \E i \in 1..Len(log) : log[i].how = "navigate"

\* src = iframe_data.get('src') or iframe_data.get('data_src')
SrcOf(info) ==
    IF Truthy(info.src) THEN info.src
    ELSE IF Truthy(info.data_src) THEN info.data_src
    ELSE <<>>

\* "if src.startswith('/'): src = urljoin(current_url, src)"
ResolveSrc(src, base) == IF StartsWith(src, <<"/">>) THEN urljoin(base, src) ELSE src

\* src.startswith(('http://', 'https://'))
IsHttpUrl(src) ==
    \/ StartsWith(src, <<"h", "t", "t", "p", ":", "/", "/">>)
    \/ StartsWith(src, <<"h", "t", "t", "p", "s", ":", "/", "/">>)

\* the listings one frame can yield, tagged with the frame or url read
ListingsFrom(tag) == {<<>>, <<[from |-> tag]>>}

LogEntry(f, how, target, read, listings) ==
    [doc |-> f.doc, relevance_score |-> f.relevance_score, how |-> how,
     target |-> target, read |-> read, listings |-> listings]

IframeResult(source, listings) ==
    [success |-> TRUE, source |-> source, job_listings |-> listings]

InitIframe ==
    /\ f_pc = "detect"
    /\ page_iframes \in SeqsUpTo(ElementPool, MaxFrames)
    /\ iframes = <<>>
    /\ f_idx = 0
    /\ job_results = <<>>
    /\ f_log = <<>>
    /\ f_url = L_base
    /\ f_result = NoIframeResult
    /\ MatchIdle /\ PagIdle /\ ExecIdle /\ OrchIdle /\ DetectIdle /\ LlmIdle

iframe_unchanged == <<mvars, pvars, evars, ovars, dvars, lvars>>

\* _detect_iframes found iframes: the loop starts
IframeDetect ==
    /\ f_pc = "detect"
    /\ page_iframes # <<>>
    /\ iframes' = DetectIframes(page_iframes)
    /\ f_pc' = "loop"
    /\ UNCHANGED <<page_iframes, f_idx, job_results, f_log, f_url, f_result,
                   iframe_unchanged>>

\* no iframe on the page, or get_page_html raised inside _detect_iframes:
\* has_iframes is False and the main-page result is returned
IframeDetectNone ==
    /\ f_pc = "detect"
    /\ f_result' = IframeResult("main_page", <<>>)
    /\ f_pc' = "done"
    /\ UNCHANGED <<page_iframes, iframes, f_idx, job_results, f_log, f_url,
                   iframe_unchanged>>

\* the end of one loop iteration: the frame's listings are appended when the
\* frame succeeded with a non-empty list
FrameDone(entry, ok) ==
    /\ f_log' = Append(f_log, entry)
    /\ job_results' = IF ok THEN job_results \o entry.listings ELSE job_results
    /\ f_idx' = f_idx + 1

CurrentFrame == iframes[f_idx + 1]

\* _process_single_iframe without src and data-src: _access_iframe_via_playwright
\* reads frames[iframe_index] of the page the browser is on
IframeAccessFrame ==
    /\ f_pc = "loop"
    /\ f_idx < Len(iframes)
    /\ SrcOf(CurrentFrame.info) = <<>>
    /\ \E frames \in (IF Navigated(f_log) THEN FramesAfterNavigation
                      ELSE {PageFrames(page_iframes)}) :
          /\ f_idx < Len(frames)
          /\ \E listings \in ListingsFrom(frames[f_idx + 1]) :
                FrameDone(LogEntry(CurrentFrame, "frame_access", <<>>, frames[f_idx + 1],
                                   listings), TRUE)
    /\ UNCHANGED <<f_pc, page_iframes, iframes, f_url, f_result, iframe_unchanged>>

\* _access_iframe_via_playwright: "Iframe index out of range", or
\* target_frame.content() raises; both give a failure dict
IframeAccessFails ==
    /\ f_pc = "loop"
    /\ f_idx < Len(iframes)
    /\ SrcOf(CurrentFrame.info) = <<>>
    /\ FrameDone(LogEntry(CurrentFrame, "access_failed", <<>>, NoFrame, <<>>), FALSE)
    /\ UNCHANGED <<f_pc, page_iframes, iframes, f_url, f_result, iframe_unchanged>>

\* the src does not start with http:// or https:// after the conversion of
\* a leading '/': "Invalid src"
IframeInvalidSrc ==
    /\ f_pc = "loop"
    /\ f_idx < Len(iframes)
    /\ SrcOf(CurrentFrame.info) # <<>>
    /\ ~IsHttpUrl(ResolveSrc(SrcOf(CurrentFrame.info), f_url))
    /\ FrameDone(LogEntry(CurrentFrame, "invalid_src", <<>>, NoFrame, <<>>), FALSE)
    /\ UNCHANGED <<f_pc, page_iframes, iframes, f_url, f_result, iframe_unchanged>>

\* navigate_to_url(src) succeeds; sleep, scrape_page, extraction of listings
IframeNavigate ==
    /\ f_pc = "loop"
    /\ f_idx < Len(iframes)
    /\ SrcOf(CurrentFrame.info) # <<>>
    /\ LET src == ResolveSrc(SrcOf(CurrentFrame.info), f_url) IN
          /\ IsHttpUrl(src)
          /\ f_url' = src
          /\ \E listings \in ListingsFrom(CurrentFrame.doc) :
                FrameDone(LogEntry(CurrentFrame, "navigate", src, NoFrame, listings), TRUE)
    /\ UNCHANGED <<f_pc, page_iframes, iframes, f_result, iframe_unchanged>>

\* navigate_to_url(src) does not succeed, or the scraping raises
IframeNavigateFails ==
    /\ f_pc = "loop"
    /\ f_idx < Len(iframes)
    /\ SrcOf(CurrentFrame.info) # <<>>
    /\ LET src == ResolveSrc(SrcOf(CurrentFrame.info), f_url) IN
          /\ IsHttpUrl(src)
          /\ FrameDone(LogEntry(CurrentFrame, "navigate_failed", src, NoFrame, <<>>), FALSE)
    /\ UNCHANGED <<f_pc, page_iframes, iframes, f_url, f_result, iframe_unchanged>>

\* the loop is over: the accumulated listings are returned
IframeReturn ==
    /\ f_pc = "loop"
    /\ f_idx = Len(iframes)
    /\ f_result' = IframeResult("iframes", job_results)
    /\ f_pc' = "done"
    /\ UNCHANGED <<page_iframes, iframes, f_idx, job_results, f_log, f_url,
                   iframe_unchanged>>

NextIframe ==
    \/ IframeDetect
    \/ IframeDetectNone
    \/ IframeAccessFrame
    \/ IframeAccessFails
    \/ IframeInvalidSrc
    \/ IframeNavigate
    \/ IframeNavigateFails
    \/ IframeReturn

SpecIframe == InitIframe /\ [][NextIframe]_vars

\* ---- properties of the iframe handler ----
\* the element with a known-ATS name added to its src
WithAts(info, ats) == [info EXCEPT !.src = OrEmpty(info.src) \o ats]

\* C21: a frame whose src names no known ATS scores strictly less than the
\* otherwise identical frame whose src names one; the ATS signal adds 60 on
\* top of the other signals (and 50 more when the name is also the first src
\* keyword to match); the score kept for a frame is the sum of its signals.
Thm_C21 ==
    \A i \in 1..Len(iframes) : \A k \in 1..Len(ats_systems) :
        LET info == iframes[i].info
            score == iframes[i].relevance_score
            with_ats == _calculate_iframe_relevance(WithAts(info, ats_systems[k]))
        IN /\ score = _calculate_iframe_relevance(info)
           /\ ~AnyIn(ats_systems, Lower(OrEmpty(info.src))) =>
                 /\ with_ats > score
                 /\ with_ats - score \in {60, 110}
                 /\ with_ats - score = 110 =>
                       /\ ~AnyIn(src_keywords, Lower(OrEmpty(info.src)))
                       /\ AnyIn(src_keywords, ats_systems[k])

\* frames were scored: one with a src keyword and an id keyword but no ATS
\* name, another without any src
Wit_C21 ==
    /\ f_pc = "loop"
    /\ \E i, j \in 1..Len(iframes) :
          /\ iframes[i].info.src = I_job
          /\ iframes[i].relevance_score = 80
          /\ iframes[j].info.src = Null
          /\ iframes[j].relevance_score = 30

RECURSIVE ConcatListings(_)
ConcatListings(log) ==
    IF log = <<>> THEN <<>> ELSE log[1].listings \o ConcatListings(Tail(log))

\* C24: every detected frame is processed exactly once, in non-increasing
\* order of the relevance score it got at detection; a frame that fails or
\* yields nothing does not end the loop; the returned list is the
\* concatenation of the frames' listings in processing order.
Thm_C24 ==
    /\ f_pc \in {"loop", "done"} /\ iframes # <<>> =>
          /\ Len(f_log) = f_idx
          /\ f_idx <= Len(iframes)
          /\ \A i \in 1..Len(f_log) :
                /\ f_log[i].doc = iframes[i].doc
                /\ f_log[i].relevance_score
                      = _calculate_iframe_relevance(page_iframes[f_log[i].doc])
          /\ \A i, j \in 1..Len(f_log) :
                i < j => /\ f_log[i].doc # f_log[j].doc
                         /\ f_log[i].relevance_score >= f_log[j].relevance_score
          /\ job_results = ConcatListings(f_log)
    /\ f_pc = "done" /\ iframes # <<>> =>
          /\ Len(f_log) = Len(page_iframes)
          /\ {f_log[i].doc : i \in 1..Len(f_log)} = 1..Len(page_iframes)
          /\ f_result.success
          /\ f_result.job_listings = ConcatListings(f_log)

\* the frame later in the document scored higher and was processed first; it
\* failed, and the other frame's listing was still collected and returned
Wit_C24 ==
    /\ f_pc = "done"
    /\ Len(f_log) = 2
    /\ f_log[1].doc = 2
    /\ f_log[1].relevance_score > f_log[2].relevance_score
    /\ f_log[1].how \in {"navigate_failed", "invalid_src", "access_failed"}
    /\ f_log[2].listings # <<>>
    /\ f_result.job_listings = f_log[2].listings

\* C25 as stated: a frame with a src or data-src value is resolved by
\* navigation, an absolute value as it is and every relative value joined
\* against the current page url; frame access by index is used only for a
\* frame without a navigable url.
Orig_C25 ==
    \A i \in 1..Len(f_log) :
        LET info == page_iframes[f_log[i].doc] IN
        /\ SrcOf(info) # <<>> =>
              /\ f_log[i].how \in {"navigate", "navigate_failed"}
              /\ IsHttpUrl(f_log[i].target)
              /\ IsHttpUrl(SrcOf(info)) => f_log[i].target = SrcOf(info)
        /\ f_log[i].how \in {"frame_access", "access_failed"} => SrcOf(info) = <<>>

\* C29 as stated: the frame read by direct frame access is the iframe that
\* was detected, never the main frame or another iframe.
Orig_C29 ==
    \A i \in 1..Len(f_log) :
        f_log[i].how = "frame_access" => f_log[i].read = f_log[i].doc

(***************************************************************************)
(* process_job_request (lead_agent.py) run by scrape_job (main.py)         *)
(***************************************************************************)
\* what a listing extraction can hand over
J_dev_ops == WithIds(<<[title |-> S_dev_ops, url |-> U_dev_ops]>>)
J_qa == WithIds(<<[title |-> S_qa, url |-> U_qa]>>)
J_same_url == WithIds(<<[title |-> S_Dev_Ops, url |-> U_qa],
                        [title |-> S_ops_dev, url |-> U_qa]>>)
OrchListings == {<<>>, J_dev_ops, J_qa, J_same_url}

\* an exception message, as the set of the marker substrings its lower-cased
\* text contains
ExcMessages == { {}, {"cloudflare"}, {"recaptcha"}, {"timeout"}, {"navigation"},
                 {"no job"}, {"navigation", "timeout"}, {"cloudflare", "recaptcha"} }

E_no_listings == "No job listings found on careers page"
E_no_matches == "No jobs matched the search criteria"
E_str_error == "str(error)"

\* scrape_any_careers_page: the executor's success(job_listings) or a failure
ScrapeOutcomes ==
    {[success |-> TRUE, job_listings |-> l, all_results |-> <<>>] : l \in OrchListings}
        \cup {NoScrapeResult}

\* handle_pagination: always success, with the accumulated items
PaginationOutcomes ==
    {[success |-> TRUE, job_listings |-> <<>>, all_results |-> l] : l \in OrchListings}

\* _fallback_scraping: success with the links extract_job_links found, which
\* reports success only for a non-empty list; failure otherwise
FallbackOutcomes ==
    {[success |-> TRUE, job_listings |-> l, all_results |-> <<>>]
        : l \in OrchListings \ {<<>>}} \cup {NoScrapeResult}

\* the dict returned at the two "if not job_links" checks
NoListingsResult ==
    [success |-> FALSE,
     keys |-> {"success", "error", "company_url", "careers_url"},
     error |-> E_no_listings, error_type |-> None, all_job_data |-> <<>>]

\* the dict returned when the matcher found nothing
NoMatchesResult ==
    [success |-> FALSE,
     keys |-> {"success", "error", "total_jobs_found", "company_url", "careers_url"},
     error |-> E_no_matches, error_type |-> None, all_job_data |-> <<>>]

\* the compiled final result
CompiledResult(jobs) ==
    [success |-> TRUE,
     keys |-> {"success", "job_params", "workflow_steps", "jobs_found",
               "all_job_data", "timestamp"},
     error |-> None, error_type |-> None, all_job_data |-> jobs]

ErrorDoc(error, error_type) ==
    [success |-> FALSE,
     keys |-> {"success", "error", "error_type", "recommendation", "job_params"},
     error |-> error, error_type |-> error_type, all_job_data |-> <<>>]

_handle_scraping_error(msg) ==
    IF "cloudflare" \in msg THEN ErrorDoc("Cloudflare protection detected", "bot_protection")
    ELSE IF "recaptcha" \in msg THEN ErrorDoc("reCAPTCHA detected", "captcha")
    ELSE IF "timeout" \in msg THEN ErrorDoc("Page load timeout", "timeout")
    ELSE IF "navigation" \in msg THEN ErrorDoc("Navigation failed", "navigation")
    ELSE ErrorDoc(E_str_error, "unknown")

\* main.py
_classify_error(msg) ==
    IF "cloudflare" \in msg THEN "bot_protection"
    ELSE IF "timeout" \in msg THEN "timeout"
    ELSE IF "navigation" \in msg THEN "navigation_failed"
    ELSE IF "no job" \in msg THEN "no_jobs_found"
    ELSE "unknown"

\* error_result of scrape_job's except branch
ErrorResult(msg) ==
    [success |-> FALSE,
     keys |-> {"success", "error", "error_type", "job_params", "scrape_metadata"},
     error |-> E_str_error, error_type |-> _classify_error(msg),
     all_job_data |-> <<>>]

\* result["scrape_metadata"] = {...}
WithMetadata(doc) == [doc EXCEPT !.keys = @ \cup {"scrape_metadata"}]

\* the pipeline positions inside the try block of process_job_request
TrySteps == {"step1", "step2", "step3", "search", "step4", "step5", "fallback1",
             "check1", "line208", "fallback2", "check2", "match", "detail"}

\* a faulty variant: the try block ends before the detail scraping step
TryCoversUntilMatch(pc) == pc \in TrySteps \ {"detail"}
\* the try block covers every pipeline position
TryCovers(pc) == pc \in TrySteps

\* the steps made of calls that catch every Exception themselves and of
\* dict.get, sleep and logging: web_agent.navigate_to_url (step 3),
\* detect_and_use_search (step 3.5), detect_pagination_info (step 4)
NonRaisingSteps == {"step3", "search", "step4"}

\* what happened on the careers page when detect_and_use_search ran
SearchOutcomes == {"page_unreadable", "no_search", "execute_raises", "fill_fails",
                   "submit_fails", "submitted"}

SearchDict(success, search_used, error) ==
    [called |-> TRUE, success |-> success, search_used |-> search_used, error |-> error]

\* detect_and_use_search(job_params): the dict it returns
DetectAndUseSearch(outcome) ==
    CASE outcome \in {"page_unreadable", "execute_raises"} -> SearchDict(FALSE, FALSE, "exception")
      [] outcome = "no_search" -> SearchDict(TRUE, FALSE, None)
      [] outcome = "fill_fails" -> SearchDict(TRUE, FALSE, "Could not fill search input")
      [] outcome = "submit_fails" -> SearchDict(TRUE, FALSE, "Could not submit search")
      [] outcome = "submitted" -> SearchDict(TRUE, TRUE, None)

\* a faulty variant: a search that was not used ends the try block
SearchNextPcFatal(r) == IF r.search_used THEN "step4" ELSE "except"
\* "if search_result.get('search_used'): sleep, else: log": both go on to step 4
SearchNextPc(r) == "step4"

\* what initialize() acquired: WebNavigationTool's page, context, browser
\* and playwright driver, in the order cleanup() closes them
nav_resources == <<"page", "context", "browser", "playwright">>
BrowserResources == Range(nav_resources)

\* search_company_website: "best_confidence > 25"
min_confidence == 25
Confidences == {0, min_confidence, min_confidence + 1, 80}

OrchParams == [job_title : {S_dev_ops}, location : {<<>>}, company_domain : BOOLEAN]

Init ==
    /\ o_pc = "step1"
    /\ job_params \in OrchParams
    /\ company_url = None
    /\ careers_url = None
    /\ pagination_info = FALSE
    /\ scrape_result = NoScrapeResult
    /\ job_links = <<>>
    /\ o_step5 = NoScrapeResult
    /\ o_extracts = 0
    /\ o_fallbacks = 0
    /\ o_match_in = [called |-> FALSE, links |-> <<>>]
    /\ all_matches = NoMatchResult
    /\ o_exc = NoExc
    /\ o_escaped = FALSE
    /\ sj_exc = NoExc
    /\ result = NoDoc
    /\ output_file = <<>>
    /\ scraped_jobs = <<>>
    /\ visited_urls = {}
    /\ d_i = 0
    /\ d_navs = <<>>
    /\ files_written = {}
    /\ o_search = NoSearch
    /\ search_result = NoSearchResult
    /\ main_pc = "running"
    /\ open_resources = BrowserResources
    /\ exit_code = 0
    /\ MatchIdle /\ PagIdle /\ ExecIdle /\ DetectIdle /\ LlmIdle /\ IframeIdle

\* an exception with message msg is raised at the current position: the
\* except clause of process_job_request takes it if the try block covers the
\* position, otherwise it reaches scrape_job
Raise(msg) ==
    IF TryCovers(o_pc)
    THEN /\ o_pc' = "except"
         /\ o_exc' = [raised |-> TRUE, msg |-> msg]
         /\ UNCHANGED <<o_escaped, sj_exc>>
    ELSE /\ o_pc' = "sj_except"
         /\ o_escaped' = TRUE
         /\ sj_exc' = [raised |-> TRUE, msg |-> msg]
         /\ UNCHANGED o_exc

orch_locals == <<job_params, company_url, careers_url, pagination_info, scrape_result,
                 job_links, o_step5, o_extracts, o_fallbacks, o_match_in, all_matches,
                 result, output_file, scraped_jobs, visited_urls, d_i, d_navs>>

\* _get_company_url: the request names the domain
OrchCompanyDomain ==
    /\ o_pc = "step1"
    /\ job_params.company_domain
    /\ company_url' = "https://domain"
    /\ o_pc' = "step2"
    /\ UNCHANGED <<job_params, careers_url, pagination_info, scrape_result, job_links,
                   o_step5, o_extracts, o_fallbacks, o_match_in, all_matches, o_exc,
                   o_escaped, sj_exc, result, output_file, scraped_jobs, visited_urls,
                   d_i, d_navs, mvars, pvars, evars, xvars,
                   cvars, files_written, o_search, search_result>>

\* _get_company_url: the search found a site above the minimum confidence and
\* the navigation to it succeeded; its url is taken
OrchCompanySearch ==
    /\ o_pc = "step1"
    /\ ~job_params.company_domain
    /\ \E c \in Confidences :
          /\ c > min_confidence
          /\ o_search' = [called |-> TRUE, best_confidence |-> c]
    /\ open_resources' = open_resources \cup {"session"}
    /\ company_url' = "https://found"
    /\ o_pc' = "step2"
    /\ UNCHANGED <<search_result, job_params, careers_url, pagination_info, scrape_result, job_links,
                   o_step5, o_extracts, o_fallbacks, o_match_in, all_matches, o_exc,
                   o_escaped, sj_exc, result, output_file, scraped_jobs, visited_urls,
                   d_i, d_navs, files_written, main_pc, exit_code,
                   mvars, pvars, evars, xvars>>

\* _get_company_url: no site above the minimum confidence, or the navigation
\* to the site failed: search_company returns a failure dict, which has no
\* "url" key: KeyError
OrchCompanySearchFails ==
    /\ o_pc = "step1"
    /\ ~job_params.company_domain
    /\ \E c \in Confidences : o_search' = [called |-> TRUE, best_confidence |-> c]
    /\ open_resources' = open_resources \cup {"session"}
    /\ Raise({})
    /\ UNCHANGED <<search_result, orch_locals, files_written, main_pc, exit_code,
                   mvars, pvars, evars, xvars>>

\* _find_careers_page returns the careers url; find_careers_link has dumped
\* the page's links to links.json
OrchCareersFound ==
    /\ o_pc = "step2"
    /\ careers_url' = "https://careers"
    /\ files_written' = files_written \cup {"links.json"}
    /\ o_pc' = "step3"
    /\ UNCHANGED <<job_params, company_url, pagination_info, scrape_result, job_links,
                   o_step5, o_extracts, o_fallbacks, o_match_in, all_matches, o_exc,
                   o_escaped, sj_exc, result, output_file, scraped_jobs, visited_urls,
                   d_i, d_navs, o_search, search_result, cvars, mvars, pvars, evars, xvars>>

\* _find_careers_page: the page content has no "html_content" (nothing was
\* parsed, no file written) or the analysis found no careers link and has no
\* "careers_url" (links.json was written before): KeyError
OrchCareersRaises ==
    /\ o_pc = "step2"
    /\ \/ files_written' = files_written
       \/ files_written' = files_written \cup {"links.json"}
    /\ Raise({})
    /\ UNCHANGED <<orch_locals, o_search, search_result, cvars, mvars, pvars, evars, xvars>>

\* steps 3, 3.5 and 4: navigate_to_url, detect_and_use_search and
\* detect_pagination_info return dicts whatever happened
OrchNavigate ==
    /\ o_pc = "step3"
    /\ o_pc' = "search"
    /\ UNCHANGED <<orch_locals, o_exc, o_escaped, sj_exc, mvars, pvars, evars, xvars,
                   cvars, files_written, o_search, search_result>>

\* step 3.5: detect_and_use_search returns a dict whatever happened on the
\* page; the pipeline goes on to step 4
OrchSearch ==
    /\ o_pc = "search"
    /\ \E outcome \in SearchOutcomes :
          /\ search_result' = DetectAndUseSearch(outcome)
          /\ o_pc' = SearchNextPc(search_result')
    /\ UNCHANGED <<orch_locals, o_exc, o_escaped, sj_exc, mvars, pvars, evars, xvars,
                   cvars, files_written, o_search>>

OrchDetectPagination ==
    /\ o_pc = "step4"
    /\ pagination_info' \in BOOLEAN
    /\ o_pc' = "step5"
    /\ UNCHANGED <<job_params, company_url, careers_url, scrape_result, job_links,
                   o_step5, o_extracts, o_fallbacks, o_match_in, all_matches, o_exc,
                   o_escaped, sj_exc, result, output_file, scraped_jobs, visited_urls,
                   d_i, d_navs, mvars, pvars, evars, xvars,
                   cvars, files_written, o_search, search_result>>

\* step 5 with pagination: handle_pagination(extract_from_page)
OrchExtractPaginated ==
    /\ o_pc = "step5"
    /\ pagination_info
    /\ \E r \in PaginationOutcomes :
          /\ scrape_result' = r
          /\ job_links' = r.all_results
          /\ o_step5' = r
    /\ o_extracts' = o_extracts + 1
    /\ o_pc' = "check1"
    /\ UNCHANGED <<job_params, company_url, careers_url, pagination_info,
                   o_fallbacks, o_match_in, all_matches, o_exc,
                   o_escaped, sj_exc, result, output_file, scraped_jobs, visited_urls,
                   d_i, d_navs, mvars, pvars, evars, xvars,
                   cvars, files_written, o_search, search_result>>

\* step 5 without pagination: scrape_any_careers_page
OrchExtractSingle ==
    /\ o_pc = "step5"
    /\ ~pagination_info
    /\ \E r \in ScrapeOutcomes :
          /\ scrape_result' = r
          /\ job_links' = r.job_listings
          /\ o_step5' = r
          /\ o_pc' = IF r.success THEN "check1" ELSE "fallback1"
    /\ o_extracts' = o_extracts + 1
    /\ UNCHANGED <<job_params, company_url, careers_url, pagination_info,
                   o_fallbacks, o_match_in, all_matches, o_exc,
                   o_escaped, sj_exc, result, output_file, scraped_jobs, visited_urls,
                   d_i, d_navs, mvars, pvars, evars, xvars,
                   cvars, files_written, o_search, search_result>>

\* "if not scrape_result.get('success')": _fallback_scraping, after either
\* extraction
OrchFallback ==
    /\ o_pc \in {"fallback1", "fallback2"}
    /\ \E r \in FallbackOutcomes :
          /\ scrape_result' = r
          /\ job_links' = r.job_listings
    /\ o_fallbacks' = o_fallbacks + 1
    /\ o_pc' = IF o_pc = "fallback1" THEN "check1" ELSE "check2"
    /\ UNCHANGED <<job_params, company_url, careers_url, pagination_info,
                   o_step5, o_extracts, o_match_in, all_matches, o_exc,
                   o_escaped, sj_exc, result, output_file, scraped_jobs, visited_urls,
                   d_i, d_navs, mvars, pvars, evars, xvars,
                   cvars, files_written, o_search, search_result>>

\* "if not job_links": return the failure dict
OrchNoListings ==
    /\ o_pc \in {"check1", "check2"}
    /\ job_links = <<>>
    /\ result' = NoListingsResult
    /\ o_pc' = "returned"
    /\ UNCHANGED <<job_params, company_url, careers_url, pagination_info, scrape_result,
                   job_links, o_step5, o_extracts, o_fallbacks, o_match_in, all_matches,
                   o_exc, o_escaped, sj_exc, output_file, scraped_jobs, visited_urls,
                   d_i, d_navs, mvars, pvars, evars, xvars,
                   cvars, files_written, o_search, search_result>>

\* job_links is not empty: go on
OrchListingsFound ==
    /\ o_pc \in {"check1", "check2"}
    /\ job_links # <<>>
    /\ o_pc' = IF o_pc = "check1" THEN "line208" ELSE "match"
    /\ UNCHANGED <<orch_locals, o_exc, o_escaped, sj_exc, mvars, pvars, evars, xvars,
                   cvars, files_written, o_search, search_result>>

\* the second scrape_any_careers_page, whose listings replace job_links
OrchExtractAgain ==
    /\ o_pc = "line208"
    /\ \E r \in ScrapeOutcomes :
          /\ scrape_result' = r
          /\ job_links' = r.job_listings
          /\ o_pc' = IF r.success THEN "check2" ELSE "fallback2"
    /\ o_extracts' = o_extracts + 1
    /\ UNCHANGED <<job_params, company_url, careers_url, pagination_info,
                   o_step5, o_fallbacks, o_match_in, all_matches, o_exc,
                   o_escaped, sj_exc, result, output_file, scraped_jobs, visited_urls,
                   d_i, d_navs, mvars, pvars, evars, xvars,
                   cvars, files_written, o_search, search_result>>

\* find_all_job_matches(job_links, job_params) and the "if not matches" return
OrchMatch ==
    /\ o_pc = "match"
    /\ o_match_in' = [called |-> TRUE, links |-> job_links]
    /\ all_matches' = FindAllJobMatches(job_links, job_params)
    /\ IF all_matches'.matches = <<>>
       THEN /\ result' = NoMatchesResult
            /\ o_pc' = "returned"
            /\ d_i' = d_i
       ELSE /\ result' = result
            /\ o_pc' = "detail"
            /\ d_i' = 1
    /\ UNCHANGED <<job_params, company_url, careers_url, pagination_info, scrape_result,
                   job_links, o_step5, o_extracts, o_fallbacks, o_exc, o_escaped, sj_exc,
                   output_file, scraped_jobs, visited_urls, d_navs,
                   mvars, pvars, evars, xvars,
                   cvars, files_written, o_search, search_result>>

\* ---- _scrape_all_matched_jobs: one action per way through the loop body ----
\* a faulty variant: no url counts as visited
AlreadyVisitedNever(job_url, visited) == FALSE
\* "if job_url in visited_urls"
AlreadyVisited(job_url, visited) == job_url \in visited

DetailPending == o_pc = "detail" /\ d_i >= 1 /\ d_i <= Len(all_matches.matches)

\* job_url in visited_urls: continue
OrchDetailSkip ==
    /\ DetailPending
    /\ AlreadyVisited(all_matches.matches[d_i].url, visited_urls)
    /\ d_i' = d_i + 1
    /\ UNCHANGED <<o_pc, job_params, company_url, careers_url, pagination_info,
                   scrape_result, job_links, o_step5, o_extracts, o_fallbacks,
                   o_match_in, all_matches, o_exc, o_escaped, sj_exc, result,
                   output_file, scraped_jobs, visited_urls, d_navs,
                   mvars, pvars, evars, xvars,
                   cvars, files_written, o_search, search_result>>

\* the navigation fails: continue
OrchDetailNavFails ==
    /\ DetailPending
    /\ LET job_url == all_matches.matches[d_i].url
       IN /\ ~AlreadyVisited(job_url, visited_urls)
          /\ visited_urls' = visited_urls \cup {job_url}
          /\ d_navs' = Append(d_navs, job_url)
    /\ d_i' = d_i + 1
    /\ UNCHANGED <<o_pc, job_params, company_url, careers_url, pagination_info,
                   scrape_result, job_links, o_step5, o_extracts, o_fallbacks,
                   o_match_in, all_matches, o_exc, o_escaped, sj_exc, result,
                   output_file, scraped_jobs, mvars, pvars, evars, xvars,
                   cvars, files_written, o_search, search_result>>

\* the page is reached and its data extracted: one record is appended
OrchDetailScraped ==
    /\ DetailPending
    /\ LET job_match == all_matches.matches[d_i]
       IN /\ ~AlreadyVisited(job_match.url, visited_urls)
          /\ visited_urls' = visited_urls \cup {job_match.url}
          /\ d_navs' = Append(d_navs, job_match.url)
          /\ scraped_jobs' = Append(scraped_jobs,
                                    [job_url |-> job_match.url,
                                     match_score |-> job_match.match_score,
                                     scrape_order |-> d_i])
    /\ d_i' = d_i + 1
    /\ UNCHANGED <<o_pc, job_params, company_url, careers_url, pagination_info,
                   scrape_result, job_links, o_step5, o_extracts, o_fallbacks,
                   o_match_in, all_matches, o_exc, o_escaped, sj_exc, result,
                   output_file, mvars, pvars, evars, xvars,
                   cvars, files_written, o_search, search_result>>

\* the page is reached but the extraction fails or raises inside the loop's
\* try: nothing is appended
OrchDetailExtractFails ==
    /\ DetailPending
    /\ LET job_url == all_matches.matches[d_i].url
       IN /\ ~AlreadyVisited(job_url, visited_urls)
          /\ visited_urls' = visited_urls \cup {job_url}
          /\ d_navs' = Append(d_navs, job_url)
    /\ d_i' = d_i + 1
    /\ UNCHANGED <<o_pc, job_params, company_url, careers_url, pagination_info,
                   scrape_result, job_links, o_step5, o_extracts, o_fallbacks,
                   o_match_in, all_matches, o_exc, o_escaped, sj_exc, result,
                   output_file, scraped_jobs, mvars, pvars, evars, xvars,
                   cvars, files_written, o_search, search_result>>

\* the loop is over: compile the final result
OrchCompile ==
    /\ o_pc = "detail"
    /\ d_i > Len(all_matches.matches)
    /\ result' = CompiledResult(scraped_jobs)
    /\ o_pc' = "returned"
    /\ UNCHANGED <<job_params, company_url, careers_url, pagination_info, scrape_result,
                   job_links, o_step5, o_extracts, o_fallbacks, o_match_in, all_matches,
                   o_exc, o_escaped, sj_exc, output_file, scraped_jobs, visited_urls,
                   d_i, d_navs, mvars, pvars, evars, xvars,
                   cvars, files_written, o_search, search_result>>

\* a statement of the current pipeline step raises an Exception
OrchStepRaises ==
    /\ o_pc \in TrySteps \ NonRaisingSteps
    /\ \E msg \in ExcMessages : Raise(msg)
    /\ UNCHANGED <<orch_locals, mvars, pvars, evars, xvars,
                   cvars, files_written, o_search, search_result>>

\* except Exception as e: return self._handle_scraping_error(e, job_params)
OrchHandleError ==
    /\ o_pc = "except"
    /\ result' = _handle_scraping_error(o_exc.msg)
    /\ o_pc' = "returned"
    /\ UNCHANGED <<job_params, company_url, careers_url, pagination_info, scrape_result,
                   job_links, o_step5, o_extracts, o_fallbacks, o_match_in, all_matches,
                   o_exc, o_escaped, sj_exc, output_file, scraped_jobs, visited_urls,
                   d_i, d_navs, mvars, pvars, evars, xvars,
                   cvars, files_written, o_search, search_result>>

\* _clean_output: a record without job_url gets the listings page's url
U_listings == <<"/">>
_clean_output(doc) ==
    IF doc.success /\ doc.all_job_data # <<>>
    THEN [doc EXCEPT !.all_job_data =
            [i \in 1..Len(@) |->
                IF @[i].job_url = <<>> THEN [@[i] EXCEPT !.job_url = U_listings]
                ELSE @[i]]]
    ELSE doc

\* scrape_job after process_job_request: metadata, clean-up and the write of
\* output.json; its except branch writes error_result and raises again
OrchScrapeJob ==
    /\ o_pc \in {"returned", "sj_except"}
    /\ main_pc = "running"
    /\ IF o_pc = "returned"
       THEN /\ output_file' = Append(output_file, _clean_output(WithMetadata(result)))
            /\ o_pc' = "written"
       ELSE /\ output_file' = Append(output_file, ErrorResult(sj_exc.msg))
            /\ o_pc' = "sj_raised"
    /\ files_written' = files_written \cup {"output.json"}
    /\ UNCHANGED <<job_params, company_url, careers_url, pagination_info, scrape_result,
                   job_links, o_step5, o_extracts, o_fallbacks, o_match_in, all_matches,
                   o_exc, o_escaped, sj_exc, result, scraped_jobs, visited_urls,
                   d_i, d_navs, o_search, search_result, cvars, mvars, pvars, evars, xvars>>

\* ---- main(): exit paths and the cleanup chain of the finally clause ----
\* the resource cleanup() turns to after resource r
AfterResource(r) ==
    IF r = "page" THEN "context"
    ELSE IF r = "context" THEN "browser"
    ELSE IF r = "browser" THEN "playwright"
    ELSE "session"

main_unchanged == <<job_params, company_url, careers_url, pagination_info, scrape_result,
                    job_links, o_step5, o_extracts, o_fallbacks, o_match_in, all_matches,
                    o_exc, o_escaped, sj_exc, result, output_file, scraped_jobs,
                    visited_urls, d_i, d_navs, files_written, o_search, search_result,
                    mvars, pvars, evars, xvars>>

\* scrape_job returned or raised: sys.exit(0 or 1), then the finally clause
MainExit ==
    /\ main_pc = "running"
    /\ o_pc \in {"written", "sj_raised"}
    /\ exit_code' = IF o_pc = "written" /\ result.success THEN 0 ELSE 1
    /\ main_pc' = "page"
    /\ UNCHANGED <<o_pc, open_resources, main_unchanged>>

\* KeyboardInterrupt while the run is under way: sys.exit(130), then the
\* finally clause
MainInterrupt ==
    /\ main_pc = "running"
    /\ o_pc \notin {"written", "sj_raised", "interrupted"}
    /\ o_pc' = "interrupted"
    /\ exit_code' = 130
    /\ main_pc' = "page"
    /\ UNCHANGED <<open_resources, main_unchanged>>

\* WebNavigationTool.cleanup: the next close()/stop() succeeds
CleanupClose ==
    /\ main_pc \in BrowserResources
    /\ open_resources' = open_resources \ {main_pc}
    /\ main_pc' = AfterResource(main_pc)
    /\ UNCHANGED <<o_pc, exit_code, main_unchanged>>

\* WebNavigationTool.cleanup: the next close()/stop() raises; the except
\* clause around all four logs it and the method returns
CleanupCloseFails ==
    /\ main_pc \in BrowserResources
    /\ main_pc' = "session"
    /\ UNCHANGED <<o_pc, open_resources, exit_code, main_unchanged>>

\* SearchTool.cleanup: "if self.session: await self.session.close()"
CleanupSession ==
    /\ main_pc = "session"
    /\ open_resources' = open_resources \ {"session"}
    /\ main_pc' = "exited"
    /\ UNCHANGED <<o_pc, exit_code, main_unchanged>>

\* SearchTool.cleanup: session.close() raises, out of the finally clause
CleanupSessionFails ==
    /\ main_pc = "session"
    /\ "session" \in open_resources
    /\ exit_code' = 1
    /\ main_pc' = "exited"
    /\ UNCHANGED <<o_pc, open_resources, main_unchanged>>

Next ==
    \/ OrchCompanyDomain
    \/ OrchCompanySearch
    \/ OrchCompanySearchFails
    \/ OrchCareersFound
    \/ OrchCareersRaises
    \/ OrchNavigate
    \/ OrchSearch
    \/ OrchDetectPagination
    \/ OrchExtractPaginated
    \/ OrchExtractSingle
    \/ OrchFallback
    \/ OrchNoListings
    \/ OrchListingsFound
    \/ OrchExtractAgain
    \/ OrchMatch
    \/ OrchDetailSkip
    \/ OrchDetailNavFails
    \/ OrchDetailScraped
    \/ OrchDetailExtractFails
    \/ OrchCompile
    \/ OrchStepRaises
    \/ OrchHandleError
    \/ OrchScrapeJob
    \/ MainExit
    \/ MainInterrupt
    \/ CleanupClose
    \/ CleanupCloseFails
    \/ CleanupSession
    \/ CleanupSessionFails

Spec == Init /\ [][Next]_vars

\* ---- properties of the pipeline ----
ReturnedPcs == {"returned", "written"}
HandlerTypes == {"bot_protection", "captcha", "timeout", "navigation", "unknown"}

\* C1: no exception raised in a pipeline step leaves process_job_request; the
\* call returns a result with a boolean success, and when a step raised, the
\* result is the failure result _handle_scraping_error makes of the exception.
Thm_C1 ==
    /\ ~o_escaped
    /\ o_pc \notin {"sj_except", "sj_raised"}
    /\ o_pc \in ReturnedPcs =>
          /\ "success" \in result.keys
          /\ result.success \in BOOLEAN
          /\ o_exc.raised =>
                /\ ~result.success
                /\ result = _handle_scraping_error(o_exc.msg)
                /\ result.error_type \in HandlerTypes
                /\ {"error", "error_type", "recommendation"} \subseteq result.keys

\* the detail scraping step raised a timeout and the run returned the
\* classified failure
Wit_C1 ==
    /\ o_pc = "written"
    /\ o_exc = [raised |-> TRUE, msg |-> {"timeout"}]
    /\ all_matches.matches # <<>>
    /\ visited_urls # {}
    /\ result.error_type = "timeout"

\* C2 as stated: every run writes one result document, and a document with
\* success = false carries error, error_type and recommendation.
Orig_C2 ==
    o_pc \in {"written", "sj_raised"} =>
        /\ Len(output_file) = 1
        /\ ~output_file[1].success =>
              {"error", "error_type", "recommendation"} \subseteq output_file[1].keys

\* C5 as stated: the extraction step runs once per request and the matcher is
\* handed exactly what the step-5 run of the executor returned (the accumulated
\* pages under pagination, the single page otherwise).
Orig_C5 ==
    o_match_in.called =>
        /\ o_extracts = 1
        /\ o_step5.success =>
              o_match_in.links = (IF pagination_info THEN o_step5.all_results
                                  ELSE o_step5.job_listings)

\* C6 as stated: a run is declared failed for lack of listings only after
\* _fallback_scraping has run.
Orig_C6 ==
    (o_pc \in ReturnedPcs /\ result.error = E_no_listings) => o_fallbacks >= 1

\* C15: during detail scraping no job url is navigated to twice, and the
\* records collected (and written as all_job_data) carry pairwise different
\* job urls.
Distinct(seq) == \A i, j \in 1..Len(seq) : i # j => seq[i] # seq[j]
JobUrls(jobs) == [i \in 1..Len(jobs) |-> jobs[i].job_url]

Thm_C15 ==
    /\ Distinct(d_navs)
    /\ Distinct(JobUrls(scraped_jobs))
    /\ Range(d_navs) = visited_urls
    /\ \A i \in 1..Len(output_file) : Distinct(JobUrls(output_file[i].all_job_data))

\* two matches with the same url: the first was scraped, the second skipped
Wit_C15 ==
    /\ o_pc = "written"
    /\ Len(all_matches.matches) = 2
    /\ all_matches.matches[1].url = all_matches.matches[2].url
    /\ Len(d_navs) = 1
    /\ Len(output_file[1].all_job_data) = 1

\* C16 as stated: when the company search finds nothing above the minimum
\* confidence, the run ends with success = false and an error_type that tells
\* the discovery failure (a tag, and not the catch-all "unknown"), and no
\* later step has run.
Orig_C16 ==
    (o_pc \in ReturnedPcs /\ o_search.called /\ o_search.best_confidence <= min_confidence)
        => /\ ~result.success
           /\ result.error_type \notin {None, "unknown"}
           /\ careers_url = None /\ o_extracts = 0 /\ ~o_match_in.called
           /\ visited_urls = {}

\* C17 as stated: every error_type of a result is one of the taxonomy tags.
Taxonomy == {"bot_protection", "captcha", "timeout", "navigation_failed",
             "no_jobs_found", "search_failed", "extraction_failed", "unknown"}

Orig_C18 ==
    main_pc = "exited" => open_resources = {}

\* C19 as stated: a run writes no file but the output document, and writes
\* that one exactly once.
Orig_C19 ==
    /\ files_written \subseteq {"output.json"}
    /\ main_pc = "exited" /\ o_pc # "interrupted" => Len(output_file) = 1


\* the scored copy of the candidate that differs from link only by having
\* its title and url in lower case
ScoreOfLowered(link, params) ==
    ScoreLink([link EXCEPT !.title = Lower(link.title), !.url = Lower(link.url)],
              Lower(params.job_title), Lower(params.location))

\* C30 as stated: a candidate and the candidate that differs from it only in
\* the letter case of title and url get the same keyword bonus, location bonus
\* and match_score, and so the same inclusion decision.
Orig_C30 ==
    (m_pc = "done" /\ m_params.job_title # <<>>) =>
        \A i \in 1..Len(m_links) :
            m_links[i].title # <<>> =>
                LET a == ScoreLink(m_links[i], Lower(m_params.job_title),
                                   Lower(m_params.location))
                    b == ScoreOfLowered(m_links[i], m_params)
                IN /\ a.keyword_bonus = b.keyword_bonus
                   /\ a.location_bonus = b.location_bonus
                   /\ a.match_score = b.match_score
                   /\ (i \in MatchIds(m_result.matches)) = (b.match_score >= threshold_score)


\* C26: whatever happens inside detect_and_use_search (no search input, no
\* selector fillable, no submit possible, an exception while reading the
\* page), the call returns a dict and the pipeline goes on to pagination
\* detection; every extraction is preceded by a returned search dict.
Thm_C26 ==
    /\ [](o_extracts >= 1 => search_result.called)
    /\ [][(o_pc = "search" /\ o_pc' \notin {"search", "interrupted"})
             => (o_pc' = "step4" /\ search_result'.called)]_vars

\* the search controller failed with an exception and the extraction ran
Wit_C26 ==
    /\ search_result.called
    /\ ~search_result.success
    /\ ~search_result.search_used
    /\ o_extracts >= 1
    /\ o_pc = "written"
    /\ result.success

====
